---- MODULE Spec2Model ----
(***************************************************************************)
(* Arbitrage scanner (src/arb_scanner.py): commission model, pairwise and  *)
(* N-way calculators, bookmaker filter, the outcome grouping strategies    *)
(* and run_scanners.                                                       *)
(*                                                                         *)
(* Numbers.  Python floats are modelled as exact rationals <<n, d>> with   *)
(* d > 0, kept in lowest terms, so that equal values are equal tuples.     *)
(* The missing value None is the tuple <<0, 0>>.  Binary rounding is not   *)
(* modelled: every equality below is an equality of real values.           *)
(***************************************************************************)
EXTENDS Integers, Sequences, FiniteSets, TLC

VARIABLES
    in_odds,      \* calculator input: list of raw odds (None allowed)
    in_keys,      \* calculator input: list of bookmaker keys
    keys_given,   \* FALSE: the caller omits the bookmaker keys argument
    res_eff,      \* result of adjust_odds_for_commission on every leg
    res_pair,     \* result of calc_arb_equal_payout
    res_nway,     \* result of calc_nway_arb
    res_profit,   \* result of _arb_profit_pct
    cfg,          \* process-wide filter / enable flags set by main
    markets,      \* requested market keys
    feed,         \* the event's bookmaker blocks, as fetched
    all_arbs,     \* opportunities returned by run_scanners (arbs in main)
    filtered,     \* result of _filter_bookmakers on the fetched blocks
    output,       \* the opportunities main prints
    pc            \* position of main: "fetch", "scanned", "error"

calc_vars == <<in_odds, in_keys, keys_given, res_eff, res_pair, res_nway, res_profit>>
scan_vars == <<cfg, markets, feed, all_arbs, filtered, output, pc>>
vars == <<in_odds, in_keys, keys_given, res_eff, res_pair, res_nway, res_profit,
          cfg, markets, feed, all_arbs, filtered, output, pc>>

----------------------------------------------------------------------------
(* Exact rational arithmetic standing in for Python float arithmetic.       *)

None == <<0, 0>>

IsNone(x) == x[2] = 0

Abs(n) == IF n < 0 THEN -n ELSE n

RECURSIVE Gcd(_, _)
Gcd(a, b) == IF b = 0 THEN a ELSE Gcd(b, a % b)

Norm(n, d) ==
    LET g == Gcd(Abs(n), Abs(d))
        s == IF d < 0 THEN -1 ELSE 1
    IN  <<(s * n) \div g, (s * d) \div g>>

R(n) == <<n, 1>>

Frac(n, d) == Norm(n, d)

\* Sums, products and comparisons cancel common factors first so that the
\* intermediate integers stay small.
RAdd(x, y) ==
    LET g == Gcd(x[2], y[2])
    IN  Norm(x[1] * (y[2] \div g) + y[1] * (x[2] \div g), (x[2] \div g) * y[2])

RNeg(x) == <<-x[1], x[2]>>

RSub(x, y) == RAdd(x, RNeg(y))

RMul(x, y) ==
    LET g1 == Gcd(Abs(x[1]), y[2])
        g2 == Gcd(Abs(y[1]), x[2])
    IN  Norm((x[1] \div g1) * (y[1] \div g2), (x[2] \div g2) * (y[2] \div g1))

RInv(x) == Norm(x[2], x[1])

RDiv(x, y) == RMul(x, RInv(y))

RLt(x, y) ==
    LET g == Gcd(x[2], y[2])
    IN  x[1] * (y[2] \div g) < y[1] * (x[2] \div g)

RLe(x, y) ==
    LET g == Gcd(x[2], y[2])
    IN  x[1] * (y[2] \div g) <= y[1] * (x[2] \div g)

RAbs(x) == <<Abs(x[1]), x[2]>>

RECURSIVE RSum(_)
RSum(s) == IF s = <<>> THEN R(0) ELSE RAdd(Head(s), RSum(Tail(s)))

RECURSIVE Concat(_)
Concat(ss) == IF ss = <<>> THEN <<>> ELSE Head(ss) \o Concat(Tail(ss))

----------------------------------------------------------------------------
(* Commission model.                                                        *)

EXCHANGE_COMMISSION ==
    [k \in {"betfair_ex_uk", "betfair_ex_eu", "betfair_ex_au",
            "smarkets", "matchbook", "betdaq"} |->
        CASE k = "smarkets"  -> Frac(2, 100)
          [] k = "matchbook" -> Frac(15, 1000)
          [] OTHER           -> Frac(5, 100)]

\* EXCHANGE_COMMISSION.get(bookmaker_key, 0.0)
CommissionOf(bookmaker_key) ==
    IF bookmaker_key \in DOMAIN EXCHANGE_COMMISSION
    THEN EXCHANGE_COMMISSION[bookmaker_key]
    ELSE R(0)

adjust_odds_for_commission_raw(odds, bookmaker_key) == odds

adjust_odds_for_commission(odds, bookmaker_key) ==
    LET commission == CommissionOf(bookmaker_key)
    IN  IF commission = R(0)
        THEN odds
        ELSE RAdd(R(1), RMul(RSub(odds, R(1)), RSub(R(1), commission)))

\* A calculator result: status "ok" with the stakes and their total, status
\* "none" for Python's None, status "TypeError" for the exception a comparison
\* of None with a float raises.
NoResult == [status |-> "none", stakes |-> <<>>, total |-> None]

TypeErrorResult == [status |-> "TypeError", stakes |-> <<>>, total |-> None]

OkResult(stakes, total) == [status |-> "ok", stakes |-> stakes, total |-> total]

NotCalled == [status |-> "NotCalled", stakes |-> <<>>, total |-> None]

calc_arb_equal_payout_swapped(odds_a, odds_b, bookmaker_a, bookmaker_b) ==
    IF IsNone(odds_a) \/ IsNone(odds_b) THEN NoResult
    ELSE IF RLe(odds_a, R(1)) \/ RLe(odds_b, R(1)) THEN NoResult
    ELSE LET effective_odds_a == adjust_odds_for_commission(odds_a, bookmaker_a)
             effective_odds_b == adjust_odds_for_commission(odds_b, bookmaker_b)
             inv == RAdd(RDiv(R(1), effective_odds_a), RDiv(R(1), effective_odds_b))
         IN  IF RLe(R(1), inv) THEN NoResult
             ELSE LET total == R(100)
                      stake_a == RDiv(RDiv(total, effective_odds_b), inv)
                      stake_b == RDiv(RDiv(total, effective_odds_a), inv)
                  IN  OkResult(<<stake_a, stake_b>>, RAdd(stake_a, stake_b))

calc_arb_equal_payout_lax(odds_a, odds_b, bookmaker_a, bookmaker_b) ==
    IF IsNone(odds_a) \/ IsNone(odds_b) THEN NoResult
    ELSE IF RLe(odds_a, R(1)) \/ RLe(odds_b, R(1)) THEN NoResult
    ELSE LET effective_odds_a == adjust_odds_for_commission(odds_a, bookmaker_a)
             effective_odds_b == adjust_odds_for_commission(odds_b, bookmaker_b)
             inv == RAdd(RDiv(R(1), effective_odds_a), RDiv(R(1), effective_odds_b))
         IN  IF RLt(R(1), inv) THEN NoResult
             ELSE LET total == R(100)
                      stake_a == RDiv(RDiv(total, effective_odds_a), inv)
                      stake_b == RDiv(RDiv(total, effective_odds_b), inv)
                  IN  OkResult(<<stake_a, stake_b>>, RAdd(stake_a, stake_b))

calc_arb_equal_payout(odds_a, odds_b, bookmaker_a, bookmaker_b) ==
    IF IsNone(odds_a) \/ IsNone(odds_b) THEN NoResult
    ELSE IF RLe(odds_a, R(1)) \/ RLe(odds_b, R(1)) THEN NoResult
    ELSE LET effective_odds_a == adjust_odds_for_commission(odds_a, bookmaker_a)
             effective_odds_b == adjust_odds_for_commission(odds_b, bookmaker_b)
             inv == RAdd(RDiv(R(1), effective_odds_a), RDiv(R(1), effective_odds_b))
         IN  IF RLe(R(1), inv) THEN NoResult
             ELSE LET total == R(100)
                      stake_a == RDiv(RDiv(total, effective_odds_a), inv)
                      stake_b == RDiv(RDiv(total, effective_odds_b), inv)
                  IN  OkResult(<<stake_a, stake_b>>, RAdd(stake_a, stake_b))

\* Index of the first odds at which any(o <= 1.0 for o in odds_list) stops:
\* a None (the comparison raises) or a value <= 1.0; 0 when there is none.
RECURSIVE FirstStop(_, _)
FirstStop(odds_list, i) ==
    IF i > Len(odds_list) THEN 0
    ELSE IF IsNone(odds_list[i]) \/ RLe(odds_list[i], R(1)) THEN i
    ELSE FirstStop(odds_list, i + 1)

\* effective_odds of calc_nway_arb and _nway_arb_profit_pct: adjusted when the
\* key list is non-empty and as long as the odds list, the raw odds otherwise.
EffectiveOddsList(odds_list, bookmaker_keys) ==
    IF bookmaker_keys # <<>> /\ Len(bookmaker_keys) = Len(odds_list)
    THEN [i \in 1..Len(odds_list) |->
             adjust_odds_for_commission(odds_list[i], bookmaker_keys[i])]
    ELSE odds_list

InvSum(effective_odds) ==
    RSum([i \in 1..Len(effective_odds) |-> RDiv(R(1), effective_odds[i])])

calc_nway_arb_uneven(odds_list, bookmaker_keys) ==
    LET stop == FirstStop(odds_list, 1)
    IN  IF odds_list = <<>> THEN NoResult
        ELSE IF stop # 0
        THEN (IF IsNone(odds_list[stop]) THEN TypeErrorResult ELSE NoResult)
        ELSE LET effective_odds == EffectiveOddsList(odds_list, bookmaker_keys)
                 inv_sum == InvSum(effective_odds)
             IN  IF RLe(R(1), inv_sum) THEN NoResult
                 ELSE LET total == R(100)
                          stakes == [i \in 1..Len(effective_odds) |->
                                        RDiv(total, RMul(odds_list[i], inv_sum))]
                      IN  OkResult(stakes, RSum(stakes))

calc_nway_arb_unchecked(odds_list, bookmaker_keys) ==
    LET stop == FirstStop(odds_list, 1)
    IN  IF odds_list = <<>> THEN NoResult
        ELSE IF stop # 0
        THEN (IF IsNone(odds_list[stop]) THEN TypeErrorResult ELSE NoResult)
        ELSE LET effective_odds == EffectiveOddsList(odds_list, bookmaker_keys)
                 inv_sum == InvSum(effective_odds)
                 total == R(100)
                 stakes == [i \in 1..Len(effective_odds) |->
                               RDiv(total, RMul(effective_odds[i], inv_sum))]
             IN  OkResult(stakes, RSum(stakes))

calc_nway_arb(odds_list, bookmaker_keys) ==
    LET stop == FirstStop(odds_list, 1)
    IN  IF odds_list = <<>> THEN NoResult
        ELSE IF stop # 0
        THEN (IF IsNone(odds_list[stop]) THEN TypeErrorResult ELSE NoResult)
        ELSE LET effective_odds == EffectiveOddsList(odds_list, bookmaker_keys)
                 inv_sum == InvSum(effective_odds)
             IN  IF RLe(R(1), inv_sum) THEN NoResult
                 ELSE LET total == R(100)
                          stakes == [i \in 1..Len(effective_odds) |->
                                        RDiv(total, RMul(effective_odds[i], inv_sum))]
                      IN  OkResult(stakes, RSum(stakes))

_arb_profit_pct_raw(odds_a, odds_b, bookmaker_a, bookmaker_b) ==
    LET inv == RAdd(RDiv(R(1), odds_a), RDiv(R(1), odds_b))
    IN  RMul(R(100), RSub(RDiv(R(1), inv), R(1)))

_arb_profit_pct(odds_a, odds_b, bookmaker_a, bookmaker_b) ==
    LET effective_odds_a == adjust_odds_for_commission(odds_a, bookmaker_a)
        effective_odds_b == adjust_odds_for_commission(odds_b, bookmaker_b)
        inv == RAdd(RDiv(R(1), effective_odds_a), RDiv(R(1), effective_odds_b))
    IN  RMul(R(100), RSub(RDiv(R(1), inv), R(1)))

_nway_arb_profit_pct(odds_list, bookmaker_keys) ==
    LET effective_odds == EffectiveOddsList(odds_list, bookmaker_keys)
        inv_sum == InvSum(effective_odds)
    IN  RMul(R(100), RSub(RDiv(R(1), inv_sum), R(1)))

----------------------------------------------------------------------------
(* Bookmaker filter.                                                        *)

TRUSTED_BOOKMAKERS ==
    {"bet365", "betway", "unibet", "bwin", "betsson", "pinnacle", "marathonbet",
     "betclic", "betfair", "williamhill", "betano", "sportingbet", "888sport",
     "sport888", "nordicbet", "coolbet", "betvictor", "betfair_sb_uk",
     "betfair_ex_eu", "betfair_ex_uk"}

BETFAIR_EXCHANGES == {"betfair_ex_uk", "betfair_ex_eu", "betfair_ex_au"}

NON_BETFAIR_EXCHANGES ==
    {"betopenly", "kalshi", "novig", "polymarket", "prophetx", "smarkets", "matchbook"}

UNRELIABLE_BOOKMAKERS == {"williamhill", "unibet_uk"}

BLACKLIST_BOOKMAKERS == {"paddypower", "paddy_power"}

FINLAND_RESTRICTED ==
    {"betmgm", "draftkings", "fanduel", "betrivers", "fanatics", "williamhill_us",
     "ballybet", "betparx", "espnbet", "hardrockbet", "fliff", "rebet",
     "pointsbetus", "barstool", "betfair_ex_au", "betr_au", "betright",
     "boombet", "ladbrokes_au", "neds", "playup", "pointsbetau", "sportsbet",
     "tab", "tabtouch", "gtbets", "bovada", "virginbet", "livescorebet",
     "coral", "ladbrokes_uk", "codere_it"}

\* str.lower() on bookmaker keys and outcome names, str.strip() and
\* str.replace(" ", "").lower() on outcome names: tables over the strings
\* the data source produces here; any other string is already in that form.
LowerTable ==
    [n \in {"Draw", "Yes", "No", "Home", "Away", "Arsenal", "Chelsea",
            "Home or Draw", "Away or Draw", "Home or Away",
            "Bet365", "Pinnacle", "WilliamHill"} |->
        CASE n = "Draw" -> "draw"
          [] n = "Bet365" -> "bet365"
          [] n = "Pinnacle" -> "pinnacle"
          [] n = "WilliamHill" -> "williamhill"
          [] n = "Yes" -> "yes"
          [] n = "No" -> "no"
          [] n = "Home" -> "home"
          [] n = "Away" -> "away"
          [] n = "Arsenal" -> "arsenal"
          [] n = "Chelsea" -> "chelsea"
          [] n = "Home or Draw" -> "home or draw"
          [] n = "Away or Draw" -> "away or draw"
          [] n = "Home or Away" -> "home or away"]

Lower(str) == IF str \in DOMAIN LowerTable THEN LowerTable[str] ELSE str

Strip(str) == str

NoSpaceLower(str) ==
    CASE str = "Home or Draw" -> "homeordraw"
      [] str = "Away or Draw" -> "awayordraw"
      [] str = "Home or Away" -> "homeoraway"
      [] OTHER -> Lower(str)

FilterKeeps_all_books_first(key) ==
    \/ cfg.use_all_books
    \/ /\ ~(key # "" /\ Lower(key) \in cfg.exclude_books)
       /\ key \notin BLACKLIST_BOOKMAKERS
       /\ key \notin NON_BETFAIR_EXCHANGES
       /\ ~(~cfg.include_exchanges /\ key \in BETFAIR_EXCHANGES)
       /\ ~(cfg.finland_only /\ key \in FINLAND_RESTRICTED)
       /\ key \in TRUSTED_BOOKMAKERS
       /\ ~(~cfg.include_unreliable /\ key \in UNRELIABLE_BOOKMAKERS)

FilterKeeps(key) ==
    /\ ~(key # "" /\ Lower(key) \in cfg.exclude_books)
    /\ key \notin BLACKLIST_BOOKMAKERS
    /\ key \notin NON_BETFAIR_EXCHANGES
    /\ ~(~cfg.include_exchanges /\ key \in BETFAIR_EXCHANGES)
    /\ ~(cfg.finland_only /\ key \in FINLAND_RESTRICTED)
    /\ ~(~cfg.use_all_books /\ key \notin TRUSTED_BOOKMAKERS)
    /\ ~(~cfg.include_unreliable /\ key \in UNRELIABLE_BOOKMAKERS)

_filter_bookmakers_unfiltered(bookmakers) == bookmakers

_filter_bookmakers(bookmakers) == SelectSeq(bookmakers, LAMBDA bm : FilterKeeps(bm.key))

----------------------------------------------------------------------------
(* Events, quotes and opportunities.                                        *)

Out(name, description, point, price) ==
    [name |-> name, description |-> description, point |-> point, price |-> price]

Mkt(key, outcomes) == [key |-> key, outcomes |-> outcomes]

\* a price or a line that is a string float() cannot convert
NonNumeric == <<1, -1>>

IsNonNumeric(x) == x[2] < 0

\* float(x) of a number; float() of a NonNumeric value raises ValueError,
\* see Raises below
Float(x) == x

\* every outcome of every market of the given bookmaker blocks, in the order
\* of the nested loops "for bm in bookmakers: for mkt in markets: for o in
\* outcomes", each with its bookmaker key and its market
FlatOutcomes(bookmakers) ==
    Concat([b \in 1..Len(bookmakers) |->
        Concat([m \in 1..Len(bookmakers[b].markets) |->
            [i \in 1..Len(bookmakers[b].markets[m].outcomes) |->
                [bk   |-> bookmakers[b].key,
                 mk   |-> bookmakers[b].markets[m].key,
                 outs |-> bookmakers[b].markets[m].outcomes,
                 o    |-> bookmakers[b].markets[m].outcomes[i]]]])])

\* a missing name (JSON null)
NoName == "<None>"

\* (name or "")
OrEmpty(name) == IF name = NoName THEN "" ELSE name

\* truth value of a price: None and 0 are false
Truthy(price) == ~IsNone(price) /\ price # R(0)

\* the tuple a strategy stores per quote, under the side label it reports
QuoteAs(f, label) ==
    [name |-> label, point |-> f.o.point, bk |-> f.bk, odds |-> Float(f.o.price)]

Quote(f) == QuoteAs(f, f.o.name)

Quotes(fs) == [i \in 1..Len(fs) |-> Quote(fs[i])]

QuotesAs(fs, label) == [i \in 1..Len(fs) |-> QuoteAs(fs[i], label)]

\* Python's x % m for m > 0
RMod(x, m) == LET q == RDiv(x, m) IN RSub(x, RMul(m, R(q[1] \div q[2])))

\* str(x) of a float whose fractional part is a multiple of 0.25
FloatStr(x) ==
    LET a == RAbs(x)
        whole == a[1] \div a[2]
        hundredths == ((a[1] % a[2]) * 100) \div a[2]
    IN  (IF x[1] < 0 THEN "-" ELSE "") \o ToString(whole) \o "." \o
        (CASE hundredths = 0 -> "0"
           [] hundredths = 50 -> "5"
           [] OTHER -> ToString(hundredths))

\* dict keys in insertion order
RECURSIVE KeysInOrder(_, _)
KeysInOrder(ks, seen) ==
    IF ks = <<>> THEN <<>>
    ELSE IF Head(ks) \in seen THEN KeysInOrder(Tail(ks), seen)
    ELSE <<Head(ks)>> \o KeysInOrder(Tail(ks), seen \cup {Head(ks)})

RECURSIVE FirstNonEmpty(_)
FirstNonEmpty(ss) ==
    IF ss = <<>> THEN <<>>
    ELSE IF Head(ss) # <<>> THEN Head(ss)
    ELSE FirstNonEmpty(Tail(ss))

\* the "line" field: None, a number, the text "<over>/<under>" of a cross-line
\* pair (kept as its two numbers), or the text "<n1> vs <n2>" (its two names)
LineNone == [kind |-> "none", num |-> <<>>, txt |-> <<>>]

LineNum(x) == [kind |-> "num", num |-> <<x>>, txt |-> <<>>]

LineCross(lo, lu) == [kind |-> "cross", num |-> <<lo, lu>>, txt |-> <<>>]

LineNames(n1, n2) == [kind |-> "names", num |-> <<>>, txt |-> <<n1, n2>>]

\* one leg of an opportunity: outcome_i/side, the bookmaker key handed to the
\* calculator, odds_i, stake_i, and the source quotes the leg is built from
Leg(outcome, point, book, odds, stake, quotes) ==
    [outcome |-> outcome, point |-> point, book |-> book, odds |-> odds,
     stake |-> stake, quotes |-> quotes]

SrcQuote(bk, odds) == [bk |-> bk, odds |-> odds]

\* a 2-way dict keeps its leg stakes under stake_a and stake_b, an N-way dict
\* under stake_1..stake_n; numbered holds the keys stake_1.. of a dict that
\* are not its leg stakes (none as the strategies build it)
Opp(eid, market, line, arb_type, legs, total_stake, profit_pct, gap, middle) ==
    [event_id |-> eid, market |-> market, line |-> line, arb_type |-> arb_type,
     legs |-> legs, total_stake |-> total_stake, profit_pct |-> profit_pct,
     gap |-> gap, type |-> middle, numbered |-> <<>>]

\* the dict a 2-way strategy appends when res, the result of
\* calc_arb_equal_payout on the quotes q1 and q2, is not None
TwoWayDict(eid, market, line, arb_type, q1, q2, gap, middle, res) ==
    IF res.status = "ok"
    THEN <<Opp(eid, market, line, arb_type,
               <<Leg(q1.name, q1.point, q1.bk, q1.odds, res.stakes[1],
                     <<SrcQuote(q1.bk, q1.odds)>>),
                 Leg(q2.name, q2.point, q2.bk, q2.odds, res.stakes[2],
                     <<SrcQuote(q2.bk, q2.odds)>>)>>,
               res.total,
               _arb_profit_pct(q1.odds, q2.odds, q1.bk, q2.bk),
               gap, middle)>>
    ELSE <<>>

TwoWayOpp(eid, market, line, arb_type, q1, q2, gap, middle) ==
    TwoWayDict(eid, market, line, arb_type, q1, q2, gap, middle,
               calc_arb_equal_payout(q1.odds, q2.odds, q1.bk, q2.bk))

\* for a in A: for b in B: if Skip: continue; append when the calculator succeeds
PairsExhaustive(A, B, Skip(_, _), Make(_, _)) ==
    Concat([i \in 1..Len(A) |->
        Concat([j \in 1..Len(B) |->
            IF Skip(A[i], B[j]) THEN <<>> ELSE Make(A[i], B[j])])])

\* the same loops with "break" after the first append of the inner loop
PairsGreedy(A, B, Skip(_, _), Make(_, _)) ==
    Concat([i \in 1..Len(A) |->
        FirstNonEmpty([j \in 1..Len(B) |->
            IF Skip(A[i], B[j]) THEN <<>> ELSE Make(A[i], B[j])])])

SameBook(q1, q2) == q1.bk = q2.bk

SameBookOrName(q1, q2) == q1.bk = q2.bk \/ q1.name = q2.name

\* the dict an N-way strategy appends when result, the result of
\* calc_nway_arb(odds, books), is not None
NwayDict(eid, market, line, arb_type, names, odds, books, quotes, result) ==
    IF result.status = "ok"
    THEN <<Opp(eid, market, line, arb_type,
               [i \in 1..Len(odds) |->
                   Leg(names[i], None, books[i], odds[i], result.stakes[i], quotes[i])],
               result.total,
               _nway_arb_profit_pct(odds, books),
               None, "")>>
    ELSE <<>>

NwayOpp(eid, market, line, arb_type, names, odds, books, quotes) ==
    NwayDict(eid, market, line, arb_type, names, odds, books, quotes,
             calc_nway_arb(odds, books))

HasName(f) == f.o.name # "" /\ f.o.name # NoName

HasPointAndPrice(f) == ~IsNone(f.o.point) /\ ~IsNone(f.o.price)

\* the filtered bookmakers' outcomes of one event
Fl(ev) == FlatOutcomes(_filter_bookmakers(ev.bookmakers))

\* a defaultdict(list) filled in traversal order, as its items(): each key, in
\* insertion order, with the list appended under it
ItemsUnder(items, keys, k) ==
    LET idx == SelectSeq([i \in 1..Len(items) |-> i], LAMBDA i : keys[i] = k)
    IN  [j \in 1..Len(idx) |-> items[idx[j]]]

GroupsOf(items, keys, order) ==
    [l \in 1..Len(order) |-> [key |-> order[l], items |-> ItemsUnder(items, keys, order[l])]]

GroupsKeyed(items, keys) == GroupsOf(items, keys, KeysInOrder(keys, {}))

GroupsBy(items, KeyOf(_)) ==
    GroupsKeyed(items, [i \in 1..Len(items) |-> KeyOf(items[i])])

\* d[k] of such a dict when k is present, the empty list otherwise
GroupItems(groups, k) ==
    Concat([l \in 1..Len(groups) |-> IF groups[l].key = k THEN groups[l].items ELSE <<>>])

----------------------------------------------------------------------------
(* Strategies.                                                              *)

is_two_way_market(outcomes) ==
    /\ Len(outcomes) = 2
    /\ \A i \in 1..Len(outcomes) : Lower(Strip(OrEmpty(outcomes[i].name))) # "draw"

IsOverUnder(f) == f.o.name \in {"Over", "Under"} /\ HasPointAndPrice(f)

IsOver(f) == f.o.name = "Over"

IsUnder(f) == f.o.name = "Under"

\* the loops over one line's quotes with "break" after the first opportunity
\* of an Over quote
OverUnderPairs_greedy(eid, market, line, overs, unders) ==
    IF overs = <<>> \/ unders = <<>> THEN <<>>
    ELSE PairsGreedy(overs, unders, SameBook,
             LAMBDA q1, q2 : TwoWayOpp(eid, market, LineNum(line), "2-way",
                                       q1, q2, None, ""))

\* the loops over one line's Over and Under quotes
OverUnderPairs(eid, market, line, overs, unders) ==
    IF overs = <<>> \/ unders = <<>> THEN <<>>
    ELSE PairsExhaustive(overs, unders, SameBook,
             LAMBDA q1, q2 : TwoWayOpp(eid, market, LineNum(line), "2-way",
                                       q1, q2, None, ""))

\* for line, sides in by_line.items()
OverUnderByLine(eid, market, by_line) ==
    Concat([l \in 1..Len(by_line) |->
        OverUnderPairs(eid, market, by_line[l].key,
            Quotes(SelectSeq(by_line[l].items, IsOver)),
            Quotes(SelectSeq(by_line[l].items, IsUnder)))])

scan_totals(events, market_key) ==
    Concat([e \in 1..Len(events) |->
        OverUnderByLine(events[e].id, market_key,
            GroupsBy(SelectSeq(Fl(events[e]),
                         LAMBDA f : f.mk = market_key /\ IsOverUnder(f)),
                     LAMBDA f : Float(f.o.point)))])

scan_alternate_totals_enhanced(events) ==
    Concat([e \in 1..Len(events) |->
        OverUnderByLine(events[e].id, "alternate_totals",
            GroupsBy(SelectSeq(Fl(events[e]),
                         LAMBDA f : f.mk = "alternate_totals" /\ IsOverUnder(f)),
                     LAMBDA f : Float(f.o.point)))])

\* the loops with the flag "middle" from a gap of 1 on
CrossLinePairs_middle_at_one(eid, all_overs, all_unders) ==
    PairsExhaustive(all_overs, all_unders,
        LAMBDA qo, qu : qo.bk = qu.bk \/ RLe(qu.point, qo.point),
        LAMBDA qo, qu :
            TwoWayOpp(eid, "cross_line_totals",
                      LineCross(qo.point, qu.point), "2-way-middle",
                      qo, qu, RSub(qu.point, qo.point),
                      IF RLe(R(1), RSub(qu.point, qo.point)) THEN "middle" ELSE "scalp"))

\* the loops over all Over and all Under quotes of an event
CrossLinePairs(eid, all_overs, all_unders) ==
    PairsExhaustive(all_overs, all_unders,
        LAMBDA qo, qu : qo.bk = qu.bk \/ RLe(qu.point, qo.point),
        LAMBDA qo, qu :
            TwoWayOpp(eid, "cross_line_totals",
                      LineCross(qo.point, qu.point), "2-way-middle",
                      qo, qu, RSub(qu.point, qo.point),
                      IF RLt(R(1), RSub(qu.point, qo.point)) THEN "middle" ELSE "scalp"))

scan_cross_line_opportunities(events) ==
    Concat([e \in 1..Len(events) |->
        CrossLinePairs(events[e].id,
            Quotes(SelectSeq(Fl(events[e]), LAMBDA f :
                       /\ f.mk \in {"totals", "alternate_totals"}
                       /\ HasPointAndPrice(f)
                       /\ IsOver(f))),
            Quotes(SelectSeq(Fl(events[e]), LAMBDA f :
                       /\ f.mk \in {"totals", "alternate_totals"}
                       /\ HasPointAndPrice(f)
                       /\ IsUnder(f))))])

\* team = desc or "Team"
TeamOf(f) ==
    IF Strip(OrEmpty(f.o.description)) = "" THEN "Team" ELSE Strip(OrEmpty(f.o.description))

\* for (team, line), sides in by_team_line.items()
TeamTotalsByKey(eid, market_key, by_team_line) ==
    Concat([l \in 1..Len(by_team_line) |->
        OverUnderPairs(eid,
            market_key \o "(" \o by_team_line[l].key[1] \o ")",
            by_team_line[l].key[2],
            Quotes(SelectSeq(by_team_line[l].items, IsOver)),
            Quotes(SelectSeq(by_team_line[l].items, IsUnder)))])

scan_team_totals(events, market_key) ==
    Concat([e \in 1..Len(events) |->
        TeamTotalsByKey(events[e].id, market_key,
            GroupsBy(SelectSeq(Fl(events[e]),
                         LAMBDA f : f.mk = market_key /\ IsOverUnder(f)),
                     LAMBDA f : <<TeamOf(f), Float(f.o.point)>>))])

IsNeg(q) == RLt(q.point, R(0))

IsPos(q) == RLt(R(0), q.point)

\* the loops without the test "if n1 == n2: continue"
SpreadPairsGreedy_same_name(eid, market, line, neg, pos) ==
    IF neg = <<>> \/ pos = <<>> THEN <<>>
    ELSE PairsGreedy(neg, pos, SameBook,
             LAMBDA q1, q2 : TwoWayOpp(eid, market, LineNum(line), "2-way",
                                       q1, q2, None, ""))

\* the loops over one line's negative and positive handicap quotes, with
\* "break" after the first opportunity of a negative quote
SpreadPairsGreedy(eid, market, line, neg, pos) ==
    IF neg = <<>> \/ pos = <<>> THEN <<>>
    ELSE PairsGreedy(neg, pos, SameBookOrName,
             LAMBDA q1, q2 : TwoWayOpp(eid, market, LineNum(line), "2-way",
                                       q1, q2, None, ""))

\* for (mk, line), outcomes in by_line.items()
SpreadsByLine(eid, by_line) ==
    Concat([l \in 1..Len(by_line) |->
        SpreadPairsGreedy(eid, by_line[l].key[1], by_line[l].key[2],
            SelectSeq(Quotes(by_line[l].items), IsNeg),
            SelectSeq(Quotes(by_line[l].items), IsPos))])

scan_spreads(events, market_keys) ==
    Concat([e \in 1..Len(events) |->
        SpreadsByLine(events[e].id,
            GroupsBy(SelectSeq(Fl(events[e]), LAMBDA f :
                         /\ f.mk \in market_keys
                         /\ f.o.name # NoName
                         /\ HasPointAndPrice(f)),
                     LAMBDA f : <<f.mk, RAbs(Float(f.o.point))>>))])

\* for line, outcomes in by_line.items()
AlternateSpreadsByLine(eid, by_line) ==
    Concat([l \in 1..Len(by_line) |->
        SpreadPairsGreedy(eid, "alternate_spreads", by_line[l].key,
            SelectSeq(Quotes(by_line[l].items), IsNeg),
            SelectSeq(Quotes(by_line[l].items), IsPos))])

scan_alternate_spreads_enhanced(events) ==
    Concat([e \in 1..Len(events) |->
        AlternateSpreadsByLine(events[e].id,
            GroupsBy(SelectSeq(Fl(events[e]), LAMBDA f :
                         /\ f.mk = "alternate_spreads"
                         /\ f.o.name # NoName
                         /\ HasPointAndPrice(f)),
                     LAMBDA f : RAbs(Float(f.o.point))))])

\* abs(line % 0.5 - 0.25) < 0.01 or abs(line % 0.5 - 0.75) < 0.01
IsQuarterLine(line) ==
    \/ RLt(RAbs(RSub(RMod(line, Frac(1, 2)), Frac(1, 4))), Frac(1, 100))
    \/ RLt(RAbs(RSub(RMod(line, Frac(1, 2)), Frac(3, 4))), Frac(1, 100))

AsianPairs(eid, line, negative, positive) ==
    IF positive = <<>> \/ negative = <<>> THEN <<>>
    ELSE PairsExhaustive(negative, positive, SameBookOrName,
             LAMBDA q1, q2 : TwoWayOpp(eid, "asian_handicap", LineNum(line),
                                       "2-way-asian", q1, q2, None, ""))

\* for line, outcomes in handicap_lines.items()
AsianByLine(eid, handicap_lines) ==
    Concat([l \in 1..Len(handicap_lines) |->
        AsianPairs(eid, handicap_lines[l].key,
            SelectSeq(Quotes(handicap_lines[l].items), IsNeg),
            SelectSeq(Quotes(handicap_lines[l].items), IsPos))])

scan_asian_handicap(events) ==
    Concat([e \in 1..Len(events) |->
        AsianByLine(events[e].id,
            GroupsBy(SelectSeq(Fl(events[e]), LAMBDA f :
                         /\ f.mk \in {"spreads", "alternate_spreads"}
                         /\ HasPointAndPrice(f)
                         /\ IsQuarterLine(Float(f.o.point))),
                     LAMBDA f : RAbs(Float(f.o.point))))])

DoubleChancePairs == <<<<"homeordraw", "away">>, <<"awayordraw", "home">>,
                       <<"homeoraway", "draw">>>>

\* (o.get("name", "") or "").replace(" ", "").lower()
DoubleChanceName(f) == NoSpaceLower(OrEmpty(f.o.name))

\* the loops without the test "if bk1 == bk2: continue"
DoubleChanceLoops_same_book(eid, n1, n2, quotes1, quotes2) ==
    IF quotes1 = <<>> \/ quotes2 = <<>> THEN <<>>
    ELSE PairsExhaustive(quotes1, quotes2, LAMBDA q1, q2 : FALSE,
             LAMBDA q1, q2 : TwoWayOpp(eid, "double_chance", LineNames(n1, n2),
                                       "2-way", q1, q2, None, ""))

DoubleChanceLoops(eid, n1, n2, quotes1, quotes2) ==
    IF quotes1 = <<>> \/ quotes2 = <<>> THEN <<>>
    ELSE PairsExhaustive(quotes1, quotes2, SameBook,
             LAMBDA q1, q2 : TwoWayOpp(eid, "double_chance", LineNames(n1, n2),
                                       "2-way", q1, q2, None, ""))

\* for n1, n2 in pairs
DoubleChanceByPair(eid, by_outcome) ==
    Concat([p \in 1..Len(DoubleChancePairs) |->
        DoubleChanceLoops(eid, DoubleChancePairs[p][1], DoubleChancePairs[p][2],
            QuotesAs(GroupItems(by_outcome, DoubleChancePairs[p][1]),
                     DoubleChancePairs[p][1]),
            QuotesAs(GroupItems(by_outcome, DoubleChancePairs[p][2]),
                     DoubleChancePairs[p][2]))])

scan_double_chance(events) ==
    Concat([e \in 1..Len(events) |->
        DoubleChanceByPair(events[e].id,
            GroupsBy(SelectSeq(Fl(events[e]), LAMBDA f :
                         /\ f.mk = "double_chance"
                         /\ DoubleChanceName(f) # ""
                         /\ ~IsNone(f.o.price)),
                     DoubleChanceName))])

BttsPairs(eid, yes_odds, no_odds) ==
    PairsExhaustive(yes_odds, no_odds, SameBook,
        LAMBDA q1, q2 : TwoWayOpp(eid, "btts", LineNone, "2-way", q1, q2, None, ""))

scan_btts(events) ==
    Concat([e \in 1..Len(events) |->
        BttsPairs(events[e].id,
            QuotesAs(SelectSeq(Fl(events[e]), LAMBDA f :
                         /\ f.mk = "btts" /\ ~IsNone(f.o.price)
                         /\ HasName(f) /\ Lower(f.o.name) = "yes"), "Yes"),
            QuotesAs(SelectSeq(Fl(events[e]), LAMBDA f :
                         /\ f.mk = "btts" /\ ~IsNone(f.o.price)
                         /\ HasName(f) /\ Lower(f.o.name) = "no"), "No"))])

\* n == "home" or (home and n == home.lower())
IsHomeSide(f, home) ==
    \/ Lower(OrEmpty(f.o.name)) = "home"
    \/ (home # "" /\ Lower(OrEmpty(f.o.name)) = Lower(home))

\* the elif branch: n == "away" or (away and n == away.lower())
IsAwaySide(f, home, away) ==
    /\ ~IsHomeSide(f, home)
    /\ \/ Lower(OrEmpty(f.o.name)) = "away"
       \/ (away # "" /\ Lower(OrEmpty(f.o.name)) = Lower(away))

DrawNoBetPairs(eid, home_odds, away_odds) ==
    PairsExhaustive(home_odds, away_odds, SameBook,
        LAMBDA q1, q2 : TwoWayOpp(eid, "draw_no_bet", LineNone, "2-way",
                                  q1, q2, None, ""))

scan_draw_no_bet(events) ==
    Concat([e \in 1..Len(events) |->
        DrawNoBetPairs(events[e].id,
            QuotesAs(SelectSeq(Fl(events[e]), LAMBDA f :
                         /\ f.mk = "draw_no_bet" /\ ~IsNone(f.o.price)
                         /\ IsHomeSide(f, events[e].home_team)), "Home"),
            QuotesAs(SelectSeq(Fl(events[e]), LAMBDA f :
                         /\ f.mk = "draw_no_bet" /\ ~IsNone(f.o.price)
                         /\ IsAwaySide(f, events[e].home_team, events[e].away_team)),
                     "Away"))])

\* the loops over the two sides without the "break"
H2hSides_exhaustive(eid, mkt_key, outcomes_by_side) ==
    IF Len(outcomes_by_side) # 2 THEN <<>>
    ELSE PairsExhaustive(Quotes(outcomes_by_side[1].items),
                         Quotes(outcomes_by_side[2].items), SameBook,
             LAMBDA q1, q2 : TwoWayOpp(eid, mkt_key, LineNone, "2-way",
                                       q1, q2, None, ""))

\* sides = list(outcomes_by_side.keys()) and the loops over the two sides
H2hSides(eid, mkt_key, outcomes_by_side) ==
    IF Len(outcomes_by_side) # 2 THEN <<>>
    ELSE PairsGreedy(Quotes(outcomes_by_side[1].items), Quotes(outcomes_by_side[2].items),
             SameBook,
             LAMBDA q1, q2 : TwoWayOpp(eid, mkt_key, LineNone, "2-way",
                                       q1, q2, None, ""))

\* market_keys is the frozenset of requested h2h-like keys, as a sequence in
\* the order it is iterated
scan_h2h(events, market_keys) ==
    Concat([e \in 1..Len(events) |->
        Concat([k \in 1..Len(market_keys) |->
            H2hSides(events[e].id, market_keys[k],
                GroupsBy(SelectSeq(Fl(events[e]), LAMBDA f :
                             /\ f.mk = market_keys[k]
                             /\ IF cfg.two_way_only
                                THEN is_two_way_market(f.outs)
                                ELSE Len(f.outs) = 2
                             /\ HasName(f)
                             /\ ~IsNone(f.o.price)),
                         LAMBDA f : f.o.name))])])

HasDraw(outs) == \E i \in 1..Len(outs) : Lower(Strip(OrEmpty(outs[i].name))) = "draw"

StrippedName(f) == Strip(OrEmpty(f.o.name))

\* the loops with the third quote taken from the first bookmaker that differs
\* from the other two
ThreeWayLoops_first_third(eid, market_key, outcome_names, A, B, C) ==
    Concat([i \in 1..Len(A) |->
      Concat([j \in 1..Len(B) |->
        FirstNonEmpty([k \in 1..Len(C) |->
          IF A[i].bk = B[j].bk \/ A[i].bk = C[k].bk \/ B[j].bk = C[k].bk
          THEN <<>>
          ELSE NwayOpp(eid, market_key \o "_3way", LineNone, "3-way",
                   outcome_names,
                   <<A[i].odds, B[j].odds, C[k].odds>>,
                   <<A[i].bk, B[j].bk, C[k].bk>>,
                   <<<<SrcQuote(A[i].bk, A[i].odds)>>,
                     <<SrcQuote(B[j].bk, B[j].odds)>>,
                     <<SrcQuote(C[k].bk, C[k].odds)>>>>)])])])

\* the three nested loops over the outcome buckets A, B, C
ThreeWayLoops(eid, market_key, outcome_names, A, B, C) ==
    Concat([i \in 1..Len(A) |->
      Concat([j \in 1..Len(B) |->
        Concat([k \in 1..Len(C) |->
          IF A[i].bk = B[j].bk \/ A[i].bk = C[k].bk \/ B[j].bk = C[k].bk
          THEN <<>>
          ELSE NwayOpp(eid, market_key \o "_3way", LineNone, "3-way",
                   outcome_names,
                   <<A[i].odds, B[j].odds, C[k].odds>>,
                   <<A[i].bk, B[j].bk, C[k].bk>>,
                   <<<<SrcQuote(A[i].bk, A[i].odds)>>,
                     <<SrcQuote(B[j].bk, B[j].odds)>>,
                     <<SrcQuote(C[k].bk, C[k].odds)>>>>)])])])

ThreeWayBuckets(eid, market_key, outcomes_data) ==
    IF Len(outcomes_data) # 3 THEN <<>>
    ELSE ThreeWayLoops(eid, market_key,
             <<outcomes_data[1].key, outcomes_data[2].key, outcomes_data[3].key>>,
             Quotes(outcomes_data[1].items),
             Quotes(outcomes_data[2].items),
             Quotes(outcomes_data[3].items))

scan_h2h_3way(events, market_key) ==
    Concat([e \in 1..Len(events) |->
        ThreeWayBuckets(events[e].id, market_key,
            GroupsBy(SelectSeq(Fl(events[e]), LAMBDA f :
                         /\ f.mk = market_key
                         /\ Len(f.outs) = 3
                         /\ HasDraw(f.outs)
                         /\ StrippedName(f) # ""
                         /\ ~IsNone(f.o.price)),
                     StrippedName))])

\* the candidate accepted when three bookmakers quote its four quotes
FourWayOpp_three_books(eid, line, team1, team2, t1, t2, o, u) ==
    IF Cardinality({t1.bk, t2.bk, o.bk, u.bk}) < 3 THEN <<>>
    ELSE NwayOpp(eid, "4way_h2h+totals_" \o FloatStr(line), LineNum(line), "4-way",
             <<team1 \o " + Over " \o FloatStr(line),
               team1 \o " + Under " \o FloatStr(line),
               team2 \o " + Over " \o FloatStr(line),
               team2 \o " + Under " \o FloatStr(line)>>,
             <<RMul(t1.odds, o.odds), RMul(t1.odds, u.odds),
               RMul(t2.odds, o.odds), RMul(t2.odds, u.odds)>>,
             <<t1.bk \o "+" \o o.bk, t1.bk \o "+" \o u.bk,
               t2.bk \o "+" \o o.bk, t2.bk \o "+" \o u.bk>>,
             <<<<SrcQuote(t1.bk, t1.odds), SrcQuote(o.bk, o.odds)>>,
               <<SrcQuote(t1.bk, t1.odds), SrcQuote(u.bk, u.odds)>>,
               <<SrcQuote(t2.bk, t2.odds), SrcQuote(o.bk, o.odds)>>,
               <<SrcQuote(t2.bk, t2.odds), SrcQuote(u.bk, u.odds)>>>>)

\* the candidate built from one quote per team and one per totals side
FourWayOpp(eid, line, team1, team2, t1, t2, o, u) ==
    IF Cardinality({t1.bk, t2.bk, o.bk, u.bk}) < 4 THEN <<>>
    ELSE NwayOpp(eid, "4way_h2h+totals_" \o FloatStr(line), LineNum(line), "4-way",
             <<team1 \o " + Over " \o FloatStr(line),
               team1 \o " + Under " \o FloatStr(line),
               team2 \o " + Over " \o FloatStr(line),
               team2 \o " + Under " \o FloatStr(line)>>,
             <<RMul(t1.odds, o.odds), RMul(t1.odds, u.odds),
               RMul(t2.odds, o.odds), RMul(t2.odds, u.odds)>>,
             <<t1.bk \o "+" \o o.bk, t1.bk \o "+" \o u.bk,
               t2.bk \o "+" \o o.bk, t2.bk \o "+" \o u.bk>>,
             <<<<SrcQuote(t1.bk, t1.odds), SrcQuote(o.bk, o.odds)>>,
               <<SrcQuote(t1.bk, t1.odds), SrcQuote(u.bk, u.odds)>>,
               <<SrcQuote(t2.bk, t2.odds), SrcQuote(o.bk, o.odds)>>,
               <<SrcQuote(t2.bk, t2.odds), SrcQuote(u.bk, u.odds)>>>>)

\* the four nested loops for one totals line
FourWayLoops(eid, line, team1, team2, T1, T2, Ov, Un) ==
    IF Ov = <<>> \/ Un = <<>> THEN <<>>
    ELSE Concat([a \in 1..Len(T1) |->
           Concat([b \in 1..Len(T2) |->
             Concat([c \in 1..Len(Ov) |->
               Concat([d \in 1..Len(Un) |->
                 FourWayOpp(eid, line, team1, team2, T1[a], T2[b], Ov[c], Un[d])])])])])

\* for (line, side) in totals_odds.keys(), each line once
FourWayLines(eid, team1, team2, T1, T2, totals_odds, lines) ==
    Concat([l \in 1..Len(lines) |->
        FourWayLoops(eid, lines[l], team1, team2, T1, T2,
            Quotes(GroupItems(totals_odds, <<lines[l], "Over">>)),
            Quotes(GroupItems(totals_odds, <<lines[l], "Under">>)))])

FourWayGroups(eid, h2h_odds, totals_odds) ==
    IF Len(h2h_odds) # 2 THEN <<>>
    ELSE FourWayLines(eid, h2h_odds[1].key, h2h_odds[2].key,
             Quotes(h2h_odds[1].items), Quotes(h2h_odds[2].items),
             totals_odds,
             KeysInOrder([i \in 1..Len(totals_odds) |-> totals_odds[i].key[1]], {}))

NoDrawByName(outs) == ~\E i \in 1..Len(outs) : Lower(OrEmpty(outs[i].name)) = "draw"

scan_4way_combined_markets(events) ==
    Concat([e \in 1..Len(events) |->
        FourWayGroups(events[e].id,
            GroupsBy(SelectSeq(Fl(events[e]), LAMBDA f :
                         /\ f.mk = "h2h"
                         /\ Len(f.outs) = 2
                         /\ NoDrawByName(f.outs)
                         /\ HasName(f)
                         /\ Truthy(f.o.price)),
                     LAMBDA f : f.o.name),
            GroupsBy(SelectSeq(Fl(events[e]), LAMBDA f :
                         /\ f.mk \in {"totals", "alternate_totals"}
                         /\ IsOverUnder(f)),
                     LAMBDA f : <<Float(f.o.point), f.o.name>>))])

\* the first quote, whatever its odds
BestQuote_first(qs) == qs[1]

\* max(quotes, key=odds): the first quote among those of highest odds
BestQuote(qs) ==
    qs[CHOOSE i \in 1..Len(qs) :
          /\ \A j \in 1..Len(qs) : RLe(qs[j].odds, qs[i].odds)
          /\ \A j \in 1..(i - 1) : RLt(qs[j].odds, qs[i].odds)]

\* outcome_id = f"{name}_{point}" if point is not None else name
OutcomeId(f) ==
    IF ~IsNone(f.o.point)
    THEN StrippedName(f) \o "_" \o FloatStr(f.o.point)
    ELSE StrippedName(f)

StrippedQuotes(fs) == [j \in 1..Len(fs) |-> QuoteAs(fs[j], StrippedName(fs[j]))]

NwayFromBest(eid, market_key, best) ==
    NwayOpp(eid, market_key, LineNone, ToString(Len(best)) \o "-way",
        [i \in 1..Len(best) |-> best[i].name],
        [i \in 1..Len(best) |-> best[i].odds],
        [i \in 1..Len(best) |-> best[i].bk],
        [i \in 1..Len(best) |-> <<SrcQuote(best[i].bk, best[i].odds)>>])

NwayOutcomes(eid, market_key, min_outcomes, max_outcomes, outcomes_data) ==
    IF Len(outcomes_data) < min_outcomes \/ Len(outcomes_data) > max_outcomes THEN <<>>
    ELSE NwayFromBest(eid, market_key,
             [i \in 1..Len(outcomes_data) |->
                 BestQuote(StrippedQuotes(outcomes_data[i].items))])

scan_nway_dynamic(events, market_key, min_outcomes, max_outcomes) ==
    Concat([e \in 1..Len(events) |->
        NwayOutcomes(events[e].id, market_key, min_outcomes, max_outcomes,
            GroupsBy(SelectSeq(Fl(events[e]), LAMBDA f :
                         /\ f.mk = market_key
                         /\ StrippedName(f) # ""
                         /\ ~IsNone(f.o.price)),
                     OutcomeId))])

----------------------------------------------------------------------------
(* run_scanners.                                                            *)

\* the key families, listed as in the source; a frozenset is iterated in
\* this order
H2H_LIKE == <<"h2h", "h2h_p1", "h2h_p2", "h2h_p3", "h2h_h1", "h2h_h2",
              "h2h_q1", "h2h_q2", "h2h_q3", "h2h_q4">>

SPREADS_LIKE == <<"spreads", "spreads_h1", "spreads_h2", "spreads_q1", "spreads_q2",
                  "spreads_q3", "spreads_q4", "spreads_p1", "spreads_p2", "spreads_p3",
                  "alternate_spreads", "alternate_spreads_corners",
                  "alternate_spreads_cards">>

TOTALS_LIKE == <<"totals", "totals_h1", "totals_h2", "totals_q1", "totals_q2",
                 "totals_q3", "totals_q4", "totals_p1", "totals_p2", "totals_p3",
                 "alternate_totals", "alternate_totals_corners",
                 "alternate_totals_cards">>

TEAM_TOTALS == <<"team_totals", "team_totals_h1", "team_totals_h2", "team_totals_q1",
                 "team_totals_q2", "team_totals_q3", "team_totals_q4">>

ICE_HOCKEY_SPORTS ==
    {"icehockey_nhl", "icehockey_sweden_hockey_league", "icehockey_finland_liiga",
     "icehockey_ohl", "icehockey_whl", "icehockey_qmjhl", "icehockey_ahl",
     "icehockey_ncaa_hockey"}

Range(seq) == {seq[i] : i \in 1..Len(seq)}

\* sorted(mkt) over the market keys requested here
SortedKeys ==
    <<"alternate_spreads", "alternate_totals", "btts", "double_chance", "draw_no_bet",
      "h2h", "outrights", "spreads", "team_totals", "totals">>

Sorted(mkt) == SelectSeq(SortedKeys, LAMBDA k : k \in mkt)

\* one call of a strategy by run_scanners: the requested keys it is run for
\* and its market argument (a key, or the list of keys for scan_h2h)
Call(scan, keys, market_key, market_keys) ==
    [scan |-> scan, keys |-> keys, market_key |-> market_key, market_keys |-> market_keys]

\* the strategy calls run_scanners makes, in the order it makes them
Dispatch(mkt, sport_key, safe_only) ==
    LET h2h_mkts == SelectSeq(H2H_LIKE, LAMBDA k : k \in mkt)
        skip_totals == safe_only /\ sport_key \in ICE_HOCKEY_SPORTS
        spreads_mkts == mkt \cap Range(SPREADS_LIKE)
        alternate == spreads_mkts \cap {"alternate_spreads", "alternate_spreads_corners",
                                        "alternate_spreads_cards"}
        regular == spreads_mkts \ alternate
        totals_keys == SelectSeq(TOTALS_LIKE, LAMBDA k : k \in mkt)
        team_keys == SelectSeq(TEAM_TOTALS, LAMBDA k : k \in mkt)
        sorted == Sorted(mkt)
    IN  (IF cfg.enable_3way /\ "h2h" \in mkt
         THEN <<Call("scan_h2h_3way", {"h2h"}, "h2h", <<>>)>> ELSE <<>>)
        \o (IF h2h_mkts # <<>>
            THEN <<Call("scan_h2h", Range(h2h_mkts), "", h2h_mkts)>> ELSE <<>>)
        \o (IF skip_totals THEN <<>>
            ELSE Concat([i \in 1..Len(totals_keys) |->
                     IF totals_keys[i] = "alternate_totals"
                     THEN <<Call("scan_alternate_totals_enhanced", {totals_keys[i]}, "", <<>>),
                            Call("scan_cross_line_opportunities", {totals_keys[i]}, "", <<>>)>>
                     ELSE <<Call("scan_totals", {totals_keys[i]}, totals_keys[i], <<>>)>>]))
        \o (IF skip_totals THEN <<>>
            ELSE [i \in 1..Len(team_keys) |->
                     Call("scan_team_totals", {team_keys[i]}, team_keys[i], <<>>)])
        \o (IF regular # {} THEN <<Call("scan_spreads", regular, "", <<>>)>> ELSE <<>>)
        \o (IF "alternate_spreads" \in alternate
            THEN <<Call("scan_alternate_spreads_enhanced", {"alternate_spreads"}, "", <<>>),
                   Call("scan_asian_handicap", {"alternate_spreads"}, "", <<>>)>>
            ELSE <<>>)
        \o (IF "btts" \in mkt THEN <<Call("scan_btts", {"btts"}, "", <<>>)>> ELSE <<>>)
        \o (IF "draw_no_bet" \in mkt
            THEN <<Call("scan_draw_no_bet", {"draw_no_bet"}, "", <<>>)>> ELSE <<>>)
        \o (IF "double_chance" \in mkt
            THEN <<Call("scan_double_chance", {"double_chance"}, "", <<>>)>> ELSE <<>>)
        \o (IF cfg.enable_4way
            THEN <<Call("scan_4way_combined_markets", {}, "", <<>>)>> ELSE <<>>)
        \o (IF cfg.max_nway >= 5
            THEN [i \in 1..Len(sorted) |->
                     Call("scan_nway_dynamic", {sorted[i]}, sorted[i], <<>>)]
            ELSE <<>>)

\* what one of these calls returns
RunStrategy(events, call) ==
    CASE call.scan = "scan_h2h_3way" -> scan_h2h_3way(events, call.market_key)
      [] call.scan = "scan_h2h" -> scan_h2h(events, call.market_keys)
      [] call.scan = "scan_alternate_totals_enhanced" -> scan_alternate_totals_enhanced(events)
      [] call.scan = "scan_cross_line_opportunities" -> scan_cross_line_opportunities(events)
      [] call.scan = "scan_totals" -> scan_totals(events, call.market_key)
      [] call.scan = "scan_team_totals" -> scan_team_totals(events, call.market_key)
      [] call.scan = "scan_spreads" -> scan_spreads(events, call.keys)
      [] call.scan = "scan_alternate_spreads_enhanced" ->
             scan_alternate_spreads_enhanced(events)
      [] call.scan = "scan_asian_handicap" -> scan_asian_handicap(events)
      [] call.scan = "scan_btts" -> scan_btts(events)
      [] call.scan = "scan_draw_no_bet" -> scan_draw_no_bet(events)
      [] call.scan = "scan_double_chance" -> scan_double_chance(events)
      [] call.scan = "scan_4way_combined_markets" -> scan_4way_combined_markets(events)
      [] call.scan = "scan_nway_dynamic" ->
             scan_nway_dynamic(events, call.market_key, 5,
                 IF cfg.max_nway < 20 THEN cfg.max_nway ELSE 20)

\* all_arbs.extend(...) over the calls
RunCalls(events, calls) ==
    Concat([i \in 1..Len(calls) |-> RunStrategy(events, calls[i])])

run_scanners(events, mkt, sport_key, safe_only) ==
    RunCalls(events, Dispatch(mkt, sport_key, safe_only))

\* the values of outcome f that the call hands to float(): the price, and the
\* point where the strategy converts it, of every outcome that passes the
\* tests the strategy makes before the conversion
Floated(f, call, ev) ==
    CASE call.scan = "scan_h2h_3way" ->
             IF /\ f.mk = call.market_key
                /\ Len(f.outs) = 3
                /\ HasDraw(f.outs)
                /\ StrippedName(f) # ""
                /\ ~IsNone(f.o.price)
             THEN {f.o.price} ELSE {}
      [] call.scan = "scan_h2h" ->
             IF /\ f.mk \in Range(call.market_keys)
                /\ IF cfg.two_way_only THEN is_two_way_market(f.outs) ELSE Len(f.outs) = 2
                /\ HasName(f)
                /\ ~IsNone(f.o.price)
             THEN {f.o.price} ELSE {}
      [] call.scan = "scan_alternate_totals_enhanced" ->
             IF f.mk = "alternate_totals" /\ IsOverUnder(f)
             THEN {f.o.point, f.o.price} ELSE {}
      [] call.scan = "scan_cross_line_opportunities" ->
             IF f.mk \in {"totals", "alternate_totals"} /\ HasPointAndPrice(f)
             THEN {f.o.point, f.o.price} ELSE {}
      [] call.scan \in {"scan_totals", "scan_team_totals"} ->
             IF f.mk = call.market_key /\ IsOverUnder(f)
             THEN {f.o.point, f.o.price} ELSE {}
      [] call.scan = "scan_spreads" ->
             IF f.mk \in call.keys /\ f.o.name # NoName /\ HasPointAndPrice(f)
             THEN {f.o.point, f.o.price} ELSE {}
      [] call.scan = "scan_alternate_spreads_enhanced" ->
             IF f.mk = "alternate_spreads" /\ f.o.name # NoName /\ HasPointAndPrice(f)
             THEN {f.o.point, f.o.price} ELSE {}
      [] call.scan = "scan_asian_handicap" ->
             IF f.mk \in {"spreads", "alternate_spreads"} /\ HasPointAndPrice(f)
             THEN {f.o.point} \cup
                  (IF ~IsNonNumeric(f.o.point) /\ IsQuarterLine(Float(f.o.point))
                   THEN {f.o.price} ELSE {})
             ELSE {}
      [] call.scan = "scan_btts" ->
             IF /\ f.mk = "btts" /\ ~IsNone(f.o.price)
                /\ HasName(f) /\ Lower(f.o.name) \in {"yes", "no"}
             THEN {f.o.price} ELSE {}
      [] call.scan = "scan_draw_no_bet" ->
             IF /\ f.mk = "draw_no_bet" /\ ~IsNone(f.o.price)
                /\ (IsHomeSide(f, ev.home_team) \/ IsAwaySide(f, ev.home_team, ev.away_team))
             THEN {f.o.price} ELSE {}
      [] call.scan = "scan_double_chance" ->
             IF f.mk = "double_chance" /\ DoubleChanceName(f) # "" /\ ~IsNone(f.o.price)
             THEN {f.o.price} ELSE {}
      [] call.scan = "scan_4way_combined_markets" ->
             IF /\ f.mk = "h2h" /\ Len(f.outs) = 2 /\ NoDrawByName(f.outs)
                /\ HasName(f) /\ Truthy(f.o.price)
             THEN {f.o.price}
             ELSE IF f.mk \in {"totals", "alternate_totals"} /\ IsOverUnder(f)
             THEN {f.o.point, f.o.price} ELSE {}
      [] call.scan = "scan_nway_dynamic" ->
             IF f.mk = call.market_key /\ StrippedName(f) # "" /\ ~IsNone(f.o.price)
             THEN {f.o.price} ELSE {}

\* the call raises ValueError on the outcomes fl of event ev
CallRaises(fl, call, ev) ==
    \E i \in 1..Len(fl) : \E v \in Floated(fl[i], call, ev) : IsNonNumeric(v)

\* some call of run_scanners raises: nothing catches it before main ends
Raises(events, calls) ==
    \E c \in 1..Len(calls) : \E e \in 1..Len(events) :
        CallRaises(Fl(events[e]), calls[c], events[e])

----------------------------------------------------------------------------
(* main, from the list run_scanners returned to the list it prints.         *)

\* days from now to the kick-off of an event of the odds response
CommenceOf(event_id) == 1

\* end = now + 7 days when --days is not positive, now + days otherwise
End(days) == IF days <= 0 THEN 7 ELSE days

_commence_ok(a) == CommenceOf(a.event_id) <= End(cfg.days)

BandFilter_strict(arbs) ==
    SelectSeq(arbs, LAMBDA a :
        RLt(cfg.min_profit, a.profit_pct) /\ RLt(a.profit_pct, cfg.max_profit))

\* args.min_profit <= a.get("profit_pct", 0) <= args.max_profit
BandFilter(arbs) ==
    SelectSeq(arbs, LAMBDA a :
        RLe(cfg.min_profit, a.profit_pct) /\ RLe(a.profit_pct, cfg.max_profit))

\* key = (a["event_id"], a["market"], a.get("line"), a.get("arb_type", "2-way"))
DedupeKey(a) == <<a.event_id, a.market, a.line, a.arb_type>>

\* the value left under one key: replaced only by a strictly higher
\* profit_pct, so the first of the opportunities of highest profit_pct
FirstBest(items) ==
    items[CHOOSE i \in 1..Len(items) :
             /\ \A j \in 1..Len(items) : RLe(items[j].profit_pct, items[i].profit_pct)
             /\ \A j \in 1..(i - 1) : RLt(items[j].profit_pct, items[i].profit_pct)]

\* list(by_key.values())
DedupeValues(by_key) == [l \in 1..Len(by_key) |-> FirstBest(by_key[l].items)]

\* every key's opportunities without the first one of lowest profit_pct
DropFirstWorst(items) ==
    IF Len(items) < 2 THEN items
    ELSE LET w == CHOOSE i \in 1..Len(items) :
                     /\ \A j \in 1..Len(items) : RLe(items[i].profit_pct, items[j].profit_pct)
                     /\ \A j \in 1..(i - 1) : RLt(items[i].profit_pct, items[j].profit_pct)
         IN  SubSeq(items, 1, w - 1) \o SubSeq(items, w + 1, Len(items))

DropValues(by_key) == Concat([l \in 1..Len(by_key) |-> DropFirstWorst(by_key[l].items)])

Dedupe_one_per_pass(arbs) == DropValues(GroupsBy(arbs, DedupeKey))

Dedupe(arbs) == DedupeValues(GroupsBy(arbs, DedupeKey))

\* arb_type.endswith("-way")
EndsWithWay(arb_type) == arb_type \notin {"2-way-asian", "2-way-middle"}

\* scale = args.max_stake / 100.0 if args.max_stake else 1.0
StakeScale == IF cfg.max_stake = R(0) THEN R(1) ELSE RDiv(cfg.max_stake, R(100))

\* the dict was built by a 2-way strategy: stake_a, stake_b and no stake_1..
IsTwoWayDict(a) == a.arb_type \in {"2-way", "2-way-asian", "2-way-middle"}

\* a[f"stake_{i}"] = a.get(f"stake_{i}", 0) * scale for i in 1..num_outcomes,
\* then total_stake: in a 2-way dict the keys stake_1, stake_2 are missing,
\* are created as 0 * scale, and stake_a, stake_b stay as they are
ScaleStakes(a) ==
    IF EndsWithWay(a.arb_type)
    THEN IF IsTwoWayDict(a)
         THEN [a EXCEPT !.numbered = <<RMul(R(0), StakeScale), RMul(R(0), StakeScale)>>,
                        !.total_stake = RMul(a.total_stake, StakeScale)]
         ELSE [a EXCEPT !.legs = [i \in 1..Len(a.legs) |->
                                     [a.legs[i] EXCEPT
                                         !.stake = RMul(a.legs[i].stake, StakeScale)]],
                        !.total_stake = RMul(a.total_stake, StakeScale)]
    ELSE a

\* the sorted list with one more opportunity: behind those of at least its
\* profit_pct (the sort is stable)
InsertAt(arbs, a, k) == SubSeq(arbs, 1, k) \o <<a>> \o SubSeq(arbs, k + 1, Len(arbs))

InsertByProfit(arbs, a) ==
    InsertAt(arbs, a, Len(SelectSeq(arbs, LAMBDA b : RLe(a.profit_pct, b.profit_pct))))

\* sorted(all_arbs, key=profit_pct, reverse=True) of the first n opportunities
RECURSIVE SortByProfit(_, _)
SortByProfit(arbs, n) ==
    IF n = 0 THEN <<>> ELSE InsertByProfit(SortByProfit(arbs, n - 1), arbs[n])

ScaleAndSort(arbs) ==
    SortByProfit([i \in 1..Len(arbs) |-> ScaleStakes(arbs[i])], Len(arbs))

\* the commence filter and the profit band
Banded(arbs) == BandFilter(SelectSeq(arbs, _commence_ok))

\* the list main prints for the list run_scanners returned
Report(arbs) ==
    ScaleAndSort(IF ~cfg.no_dedupe THEN Dedupe(Banded(arbs)) ELSE Banded(arbs))

----------------------------------------------------------------------------
(* Calculator specification: the inputs are drawn in the initial state and  *)
(* each action applies one of the pure functions to them.                   *)

MaxLegs == 3

\* None, the boundary 1.0, an even-money price, 2.05 and 4.0
OddsValues == {None, R(1), R(2), Frac(41, 20), R(4)}

\* a fixed-odds book without a table entry and an exchange charging 5%
CalcKeys == {"bet365", "betfair_ex_uk"}

AllNumeric(odds_list) == \A i \in 1..Len(odds_list) : ~IsNone(odds_list[i])

\* the key of leg i as the callee sees it: "" is the default argument
KeyOfLeg(i) == IF keys_given THEN in_keys[i] ELSE ""

ValueResult(v) == [status |-> "ok", value |-> v]

ValueNotCalled == [status |-> "NotCalled", value |-> <<>>]

NotFiltered == [status |-> "NotCalled", blocks |-> <<>>]

FilterResult(blocks) == [status |-> "ok", blocks |-> blocks]

IdleScan ==
    /\ cfg = [idle |-> TRUE]
    /\ markets = {}
    /\ feed = <<>>
    /\ all_arbs = <<>>
    /\ filtered = NotFiltered
    /\ output = <<>>
    /\ pc = "calc"

\* best odds of a five-outcome market: 2.2, 3.1, 4.5, 6.0 and 10.0
FiveWayOdds == <<Frac(11, 5), Frac(31, 10), Frac(9, 2), R(6), R(10)>>

\* fixed-odds books: none has an entry in EXCHANGE_COMMISSION
FiveWayKeys == <<"bet365", "pinnacle", "betway", "unibet", "bwin">>

InitCalc ==
    /\ \/ \E n \in 0..MaxLegs :
             /\ in_odds \in [1..n -> OddsValues]
             /\ keys_given \in BOOLEAN
             /\ in_keys \in [1..n -> CalcKeys]
             /\ (~keys_given => in_keys = [i \in 1..n |-> "bet365"])
       \/ /\ in_odds = FiveWayOdds
          /\ keys_given \in BOOLEAN
          /\ in_keys = FiveWayKeys
    /\ res_eff = ValueNotCalled
    /\ res_pair = NotCalled
    /\ res_nway = NotCalled
    /\ res_profit = ValueNotCalled
    /\ IdleScan

\* adjust_odds_for_commission(o, bk) on every leg
AdjustOddsForCommission ==
    /\ res_eff = ValueNotCalled
    /\ Len(in_odds) >= 1
    /\ AllNumeric(in_odds)
    /\ res_eff' = ValueResult([i \in 1..Len(in_odds) |->
                      adjust_odds_for_commission(in_odds[i], KeyOfLeg(i))])
    /\ UNCHANGED <<in_odds, in_keys, keys_given, res_pair, res_nway, res_profit>>
    /\ UNCHANGED scan_vars

\* calc_arb_equal_payout(odds_a, odds_b, bookmaker_a, bookmaker_b)
CalcArbEqualPayout ==
    /\ res_pair = NotCalled
    /\ Len(in_odds) = 2
    /\ res_pair' = calc_arb_equal_payout(in_odds[1], in_odds[2], KeyOfLeg(1), KeyOfLeg(2))
    /\ UNCHANGED <<in_odds, in_keys, keys_given, res_eff, res_nway, res_profit>>
    /\ UNCHANGED scan_vars

\* calc_nway_arb(odds_list, bookmaker_keys)
CalcNwayArb ==
    /\ res_nway = NotCalled
    /\ res_nway' = calc_nway_arb(in_odds, IF keys_given THEN in_keys ELSE <<>>)
    /\ UNCHANGED <<in_odds, in_keys, keys_given, res_eff, res_pair, res_profit>>
    /\ UNCHANGED scan_vars

\* _arb_profit_pct(odds_a, odds_b, bookmaker_a, bookmaker_b)
ArbProfitPct ==
    /\ res_profit = ValueNotCalled
    /\ Len(in_odds) = 2
    /\ AllNumeric(in_odds)
    /\ res_profit' = ValueResult(
           _arb_profit_pct(in_odds[1], in_odds[2], KeyOfLeg(1), KeyOfLeg(2)))
    /\ UNCHANGED <<in_odds, in_keys, keys_given, res_eff, res_pair, res_nway>>
    /\ UNCHANGED scan_vars

NextCalc ==
    \/ AdjustOddsForCommission
    \/ CalcArbEqualPayout
    \/ CalcNwayArb
    \/ ArbProfitPct

SpecCalc == InitCalc /\ [][NextCalc]_vars

----------------------------------------------------------------------------
(* Scanner specification: main sets the flags, the event's bookmaker blocks *)
(* arrive one by one, and run_scanners is applied to what has arrived.      *)

MaxBooks == 4

\* the argparse defaults as main copies them into the globals
DefaultCfg ==
    [include_unreliable |-> FALSE, use_all_books |-> FALSE, include_exchanges |-> TRUE,
     finland_only |-> TRUE, two_way_only |-> FALSE, enable_3way |-> FALSE,
     enable_4way |-> FALSE, max_nway |-> 4, exclude_books |-> {},
     safe_only |-> FALSE, sport_key |-> "soccer_epl",
     min_profit |-> R(0), max_profit |-> R(100), no_dedupe |-> FALSE,
     max_stake |-> R(100), days |-> 0]

Run(mkt, c) == [markets |-> mkt, cfg |-> c]

\* _EXCLUDE_BOOKS = {b.strip().lower() for b in ... if b.strip()}
ParseExcludeBooks(parts) ==
    {Lower(Strip(parts[i])) : i \in {j \in 1..Len(parts) : Strip(parts[j]) # ""}}

\* command lines: --markets X alone, or with --3way, --4way, --nway 5,
\* --no-exchanges
Runs ==
    {Run({"h2h"}, [DefaultCfg EXCEPT !.enable_3way = TRUE]),
     Run({"h2h", "totals"}, [DefaultCfg EXCEPT !.enable_4way = TRUE]),
     Run({"totals"}, DefaultCfg),
     Run({"totals"}, [DefaultCfg EXCEPT !.include_exchanges = FALSE]),
     Run({"alternate_totals"}, DefaultCfg),
     Run({"team_totals"}, DefaultCfg),
     Run({"spreads"}, DefaultCfg),
     Run({"alternate_spreads"}, DefaultCfg),
     Run({"btts"}, DefaultCfg),
     Run({"draw_no_bet"}, DefaultCfg),
     Run({"double_chance"}, DefaultCfg),
     Run({"outrights"}, [DefaultCfg EXCEPT !.max_nway = 5])}

NoDesc == ""

H2H2(p) == Mkt("h2h", <<Out("Arsenal", NoDesc, None, p), Out("Chelsea", NoDesc, None, p)>>)

H2H3(p) == Mkt("h2h", <<Out("Arsenal", NoDesc, None, p), Out("Draw", NoDesc, None, p),
                        Out("Chelsea", NoDesc, None, p)>>)

OverUnder(key, desc, line, p) ==
    Mkt(key, <<Out("Over", desc, line, p), Out("Under", desc, line, p)>>)

Handicap(key, fav, dog, line, p) ==
    Mkt(key, <<Out(fav, NoDesc, RNeg(line), p), Out(dog, NoDesc, line, p)>>)

YesNo(p) == Mkt("btts", <<Out("Yes", NoDesc, None, p), Out("No", NoDesc, None, p)>>)

DrawNoBet(h, a, p) ==
    Mkt("draw_no_bet", <<Out(h, NoDesc, None, p), Out(a, NoDesc, None, p)>>)

DoubleChance(n1, n2, p) ==
    Mkt("double_chance", <<Out(n1, NoDesc, None, p), Out(n2, NoDesc, None, p)>>)

Runners == <<"R1", "R2", "R3", "R4", "R5", "R6">>

Outright(from, to, p) ==
    Mkt("outrights", [i \in 1..(to - from + 1) |->
                         Out(Runners[from + i - 1], NoDesc, None, p)])

\* what one bookmaker may quote for the requested markets
Offers(mkt) ==
    CASE mkt = {"h2h"} ->
            {<<H2H2(R(2))>>, <<H2H2(Frac(41, 20))>>, <<H2H3(R(4))>>, <<H2H3(R(2))>>}
      [] mkt = {"h2h", "totals"} ->
            {<<H2H2(R(2))>>, <<H2H2(Frac(41, 20))>>,
             <<OverUnder("totals", NoDesc, Frac(5, 2), R(2))>>,
             <<H2H2(R(2)), OverUnder("totals", NoDesc, Frac(5, 2), R(2))>>}
      [] mkt = {"totals"} ->
            {<<OverUnder("totals", NoDesc, Frac(5, 2), R(2))>>,
             <<OverUnder("totals", NoDesc, Frac(5, 2), Frac(41, 20))>>,
             <<OverUnder("totals", NoDesc, Frac(7, 2), Frac(41, 20))>>}
      [] mkt = {"alternate_totals"} ->
            {<<OverUnder("alternate_totals", NoDesc, Frac(5, 2), R(2))>>,
             <<OverUnder("alternate_totals", NoDesc, Frac(7, 2), Frac(41, 20))>>,
             <<OverUnder("alternate_totals", NoDesc, Frac(9, 2), Frac(41, 20))>>}
      [] mkt = {"team_totals"} ->
            {<<OverUnder("team_totals", "Arsenal", Frac(3, 2), R(2))>>,
             <<OverUnder("team_totals", "Arsenal", Frac(3, 2), Frac(41, 20))>>,
             <<OverUnder("team_totals", "Chelsea", Frac(3, 2), Frac(41, 20))>>}
      [] mkt = {"spreads"} ->
            {<<Handicap("spreads", "Arsenal", "Chelsea", Frac(3, 2), R(2))>>,
             <<Handicap("spreads", "Arsenal", "Chelsea", Frac(3, 2), Frac(41, 20))>>,
             <<Handicap("spreads", "Chelsea", "Arsenal", Frac(3, 2), Frac(41, 20))>>}
      [] mkt = {"alternate_spreads"} ->
            {<<Handicap("alternate_spreads", "Arsenal", "Chelsea", Frac(5, 4), R(2))>>,
             <<Handicap("alternate_spreads", "Arsenal", "Chelsea", Frac(5, 4), Frac(41, 20))>>,
             <<Handicap("alternate_spreads", "Arsenal", "Chelsea", Frac(3, 2), Frac(41, 20))>>}
      [] mkt = {"btts"} ->
            {<<YesNo(R(2))>>, <<YesNo(Frac(41, 20))>>}
      [] mkt = {"draw_no_bet"} ->
            {<<DrawNoBet("Home", "Away", R(2))>>,
             <<DrawNoBet("Arsenal", "Chelsea", Frac(41, 20))>>}
      [] mkt = {"double_chance"} ->
            {<<DoubleChance("Home or Draw", "Away", R(2))>>,
             <<DoubleChance("Home or Draw", "Away", Frac(41, 20))>>,
             <<DoubleChance("Home or Away", "Draw", Frac(41, 20))>>}
      [] mkt = {"outrights"} ->
            {<<Outright(1, 5, R(6))>>, <<Outright(1, 5, R(4))>>,
             <<Outright(1, 3, R(6))>>, <<Outright(4, 6, R(6))>>}

\* fixed-odds books are interchangeable: they arrive in this order
PlainBooks == <<"bet365", "pinnacle", "betway", "unibet", "bwin">>

FeedKeys(bookmakers) == {bookmakers[i].key : i \in 1..Len(bookmakers)}

NextPlainBook(bookmakers) ==
    PlainBooks[Cardinality(FeedKeys(bookmakers) \cap Range(PlainBooks)) + 1]

\* the keys the next block may carry: the next fixed-odds book, or the
\* Betfair exchange if it has not arrived yet
NextBooks(bookmakers) ==
    {NextPlainBook(bookmakers)} \cup ({"betfair_ex_uk"} \ FeedKeys(bookmakers))

\* Other leagues: their odds responses carry bookmakers the filter excludes,
\* two events, non-numeric or missing values, odds of 1.0 or less, a market
\* of one team and the draw, or long odds on several lines, or they are
\* scanned with a profit band, without deduplication or with another
\* maximum stake.

\* every strategy, with the Betfair exchange and one fixed-odds book excluded
StrategyLeague == "soccer_norway_eliteserien"

\* one market under several settings of the bookmaker flags
FilterLeague == "soccer_sweden_allsvenskan"

\* two events, some blocks with non-numeric, null or missing values
MalformedLeague == "soccer_efl_champ"

\* some quotes at odds of 1.0 or less
LowOddsLeague == "soccer_italy_serie_a"

\* quotes and bookmakers as in the first league, under --max-profit 2,
\* --min-profit 2.5 --max-profit 2.5 and --no-dedupe
BandLeague == "soccer_germany_bundesliga"

Band == [DefaultCfg EXCEPT !.sport_key = BandLeague]

\* some head-to-head markets of two outcomes, one of them the draw
DrawLeague == "soccer_spain_la_liga"

\* alternate totals at long odds on up to four lines, under --nway 6
LongOddsLeague == "soccer_france_ligue_one"

\* quotes as in the first of these leagues, under --max-stake 50, 250 or 0
StakeLeague == "soccer_netherlands_eredivisie"

Staking == [DefaultCfg EXCEPT !.sport_key = StakeLeague, !.max_stake = R(50)]

Excluding == [DefaultCfg EXCEPT !.sport_key = StrategyLeague, !.include_exchanges = FALSE,
                                !.exclude_books = ParseExcludeBooks(<<"Pinnacle">>)]

Flags == [DefaultCfg EXCEPT !.sport_key = FilterLeague]

LeagueRuns ==
    {Run({"h2h"}, [Excluding EXCEPT !.enable_3way = TRUE]),
     Run({"h2h", "totals"}, [Excluding EXCEPT !.enable_4way = TRUE]),
     Run({"totals"}, Excluding),
     Run({"alternate_totals"}, Excluding),
     Run({"team_totals"}, Excluding),
     Run({"spreads"}, Excluding),
     Run({"alternate_spreads"}, Excluding),
     Run({"btts"}, Excluding),
     Run({"draw_no_bet"}, Excluding),
     Run({"double_chance"}, Excluding),
     Run({"outrights"}, [Excluding EXCEPT !.max_nway = 5]),
     Run({"btts"}, Flags),
     Run({"btts"}, [Flags EXCEPT !.include_exchanges = FALSE, !.include_unreliable = TRUE]),
     Run({"btts"}, [Flags EXCEPT !.use_all_books = TRUE]),
     Run({"btts"}, [Flags EXCEPT !.use_all_books = TRUE, !.finland_only = FALSE,
                                 !.exclude_books = ParseExcludeBooks(<<"bet365">>)]),
     Run({"totals"}, [DefaultCfg EXCEPT !.sport_key = MalformedLeague]),
     Run({"totals"}, [Band EXCEPT !.max_profit = R(2)]),
     Run({"totals"}, [Band EXCEPT !.min_profit = Frac(5, 2), !.max_profit = Frac(5, 2)]),
     Run({"totals"}, [Band EXCEPT !.no_dedupe = TRUE]),
     Run({"h2h", "totals"}, [DefaultCfg EXCEPT !.sport_key = LowOddsLeague,
                                               !.enable_4way = TRUE]),
     Run({"h2h"}, [DefaultCfg EXCEPT !.sport_key = DrawLeague]),
     Run({"h2h"}, [DefaultCfg EXCEPT !.sport_key = DrawLeague, !.two_way_only = TRUE]),
     Run({"alternate_totals"}, [DefaultCfg EXCEPT !.sport_key = LongOddsLeague,
                                                  !.max_nway = 6]),
     Run({"h2h"}, [Staking EXCEPT !.enable_3way = TRUE]),
     Run({"totals"}, Staking),
     Run({"totals"}, [Staking EXCEPT !.max_stake = R(0)]),
     Run({"alternate_totals"}, [Staking EXCEPT !.max_stake = R(250)]),
     Run({"alternate_spreads"}, Staking),
     Run({"outrights"}, [Staking EXCEPT !.max_nway = 5])}

\* two quotes per market, the second at the better price
FewOffers(mkt) ==
    CASE mkt = {"h2h"} -> {<<H2H3(R(4))>>, <<H2H2(Frac(41, 20))>>}
      [] mkt = {"h2h", "totals"} ->
            {<<H2H2(Frac(41, 20))>>, <<OverUnder("totals", NoDesc, Frac(5, 2), Frac(41, 20))>>}
      [] mkt = {"totals"} ->
            {<<OverUnder("totals", NoDesc, Frac(5, 2), R(2))>>,
             <<OverUnder("totals", NoDesc, Frac(5, 2), Frac(41, 20))>>}
      [] mkt = {"alternate_totals"} ->
            {<<OverUnder("alternate_totals", NoDesc, Frac(5, 2), Frac(41, 20))>>,
             <<OverUnder("alternate_totals", NoDesc, Frac(7, 2), Frac(41, 20))>>}
      [] mkt = {"team_totals"} ->
            {<<OverUnder("team_totals", "Arsenal", Frac(3, 2), R(2))>>,
             <<OverUnder("team_totals", "Arsenal", Frac(3, 2), Frac(41, 20))>>}
      [] mkt = {"spreads"} ->
            {<<Handicap("spreads", "Arsenal", "Chelsea", Frac(3, 2), R(2))>>,
             <<Handicap("spreads", "Arsenal", "Chelsea", Frac(3, 2), Frac(41, 20))>>}
      [] mkt = {"alternate_spreads"} ->
            {<<Handicap("alternate_spreads", "Arsenal", "Chelsea", Frac(5, 4), Frac(41, 20))>>,
             <<Handicap("alternate_spreads", "Arsenal", "Chelsea", Frac(3, 2), Frac(41, 20))>>}
      [] mkt = {"btts"} -> {<<YesNo(R(2))>>, <<YesNo(Frac(41, 20))>>}
      [] mkt = {"draw_no_bet"} ->
            {<<DrawNoBet("Home", "Away", R(2))>>,
             <<DrawNoBet("Arsenal", "Chelsea", Frac(41, 20))>>}
      [] mkt = {"double_chance"} ->
            {<<DoubleChance("Home or Draw", "Away", R(2))>>,
             <<DoubleChance("Home or Draw", "Away", Frac(41, 20))>>}
      [] mkt = {"outrights"} -> {<<Outright(1, 5, R(6))>>, <<Outright(1, 3, R(6))>>}

\* a good block; one whose Over price and Under line are not numbers; one
\* with a null name, a missing line and a missing price
MalformedOffers ==
    {<<OverUnder("totals", NoDesc, Frac(5, 2), Frac(41, 20))>>,
     <<Mkt("totals", <<Out("Over", NoDesc, Frac(5, 2), NonNumeric),
                       Out("Under", NoDesc, NonNumeric, Frac(41, 20))>>)>>,
     <<Mkt("totals", <<Out(NoName, NoDesc, Frac(5, 2), R(2)),
                       Out("Under", NoDesc, None, Frac(41, 20)),
                       Out("Over", NoDesc, Frac(5, 2), None)>>)>>}

\* head-to-head at 0.9 or 5.0, totals at 3.0, or at 0 and no price
LowOddsOffers ==
    {<<H2H2(Frac(9, 10))>>, <<H2H2(R(5))>>,
     <<OverUnder("totals", NoDesc, Frac(5, 2), R(3))>>,
     <<Mkt("totals", <<Out("Over", NoDesc, Frac(5, 2), R(0)),
                       Out("Under", NoDesc, Frac(5, 2), None)>>)>>}

\* head-to-head on both teams, on one team and the draw, or three-way
DrawOffers ==
    {<<H2H2(Frac(41, 20))>>,
     <<Mkt("h2h", <<Out("Arsenal", NoDesc, None, Frac(41, 20)),
                    Out("Draw", NoDesc, None, Frac(41, 20))>>)>>,
     <<H2H3(R(4))>>}

\* Over and Under of one line at 7.0, or of the line 4.5 at 8.0
LongOddsOffers ==
    {<<OverUnder("alternate_totals", NoDesc, Frac(5, 2), R(7))>>,
     <<OverUnder("alternate_totals", NoDesc, Frac(7, 2), R(7))>>,
     <<OverUnder("alternate_totals", NoDesc, Frac(9, 2), R(7))>>,
     <<OverUnder("alternate_totals", NoDesc, Frac(9, 2), R(8))>>,
     <<OverUnder("alternate_totals", NoDesc, Frac(11, 2), R(7))>>}

\* what one bookmaker of the league may quote for the requested markets
OffersOf(sport_key, mkt) ==
    CASE sport_key \in {StrategyLeague, FilterLeague, StakeLeague} -> FewOffers(mkt)
      [] sport_key = MalformedLeague -> MalformedOffers
      [] sport_key = LowOddsLeague -> LowOddsOffers
      [] sport_key = DrawLeague -> DrawOffers
      [] sport_key = LongOddsLeague -> LongOddsOffers
      [] OTHER -> Offers(mkt)

\* keys next to the fixed-odds books: an exchange, a blacklisted book, an
\* unreliable one, a non-Betfair exchange, a jurisdiction-restricted one,
\* one outside the trusted set, one spelled in capitals
SpecialBooks(sport_key) ==
    CASE sport_key = StrategyLeague -> {"betfair_ex_uk", "paddypower"}
      [] sport_key = FilterLeague ->
            {"betfair_ex_uk", "paddypower", "williamhill", "smarkets", "draftkings",
             "betonlineag", "Bet365"}
      [] OTHER -> {}

\* the keys the next block of an event may carry: the next fixed-odds book,
\* or one of the league's other books if the event has none of them yet
BooksOf(sport_key, bookmakers) ==
    IF sport_key \in {StrategyLeague, FilterLeague, MalformedLeague, LowOddsLeague,
                      DrawLeague, LongOddsLeague, StakeLeague}
    THEN {NextPlainBook(bookmakers)} \cup
         (IF FeedKeys(bookmakers) \cap SpecialBooks(sport_key) = {}
          THEN SpecialBooks(sport_key) ELSE {})
    ELSE NextBooks(bookmakers)

EventIds(sport_key) == IF sport_key = MalformedLeague THEN <<"ev1", "ev2">> ELSE <<"ev1">>

\* the blocks fetched for one event
BlocksOf(blocks, id) == SelectSeq(blocks, LAMBDA b : b.event = id)

Event(id, bookmakers) ==
    [id |-> id, home_team |-> "Arsenal", away_team |-> "Chelsea",
     bookmakers |-> bookmakers]

\* events = fetch_odds(...)
Events(blocks, sport_key) ==
    [i \in 1..Len(EventIds(sport_key)) |->
        Event(EventIds(sport_key)[i], BlocksOf(blocks, EventIds(sport_key)[i]))]

IdleCalc ==
    /\ in_odds = <<>>
    /\ in_keys = <<>>
    /\ keys_given = FALSE
    /\ res_eff = ValueNotCalled
    /\ res_pair = NotCalled
    /\ res_nway = NotCalled
    /\ res_profit = ValueNotCalled

Init ==
    /\ \E r \in Runs : markets = r.markets /\ cfg = r.cfg
    /\ feed = <<>>
    /\ all_arbs = <<>>
    /\ filtered = NotFiltered
    /\ output = <<>>
    /\ pc = "fetch"
    /\ IdleCalc

\* the odds response gains one bookmaker block of one event
FetchBookmaker ==
    /\ pc = "fetch"
    /\ Len(feed) < MaxBooks
    /\ \E e \in Range(EventIds(cfg.sport_key)) :
          \E key \in BooksOf(cfg.sport_key, BlocksOf(feed, e)),
             mkts \in OffersOf(cfg.sport_key, markets) :
              feed' = Append(feed, [event |-> e, key |-> key, markets |-> mkts])
    /\ UNCHANGED <<cfg, markets, all_arbs, filtered, output, pc>>
    /\ UNCHANGED calc_vars

\* arbs = run_scanners(events, markets_set, sport_key, safe_only), then the
\* filters, the deduplication, the scaling and the sort of main
RunScanners ==
    /\ pc = "fetch"
    /\ IF Raises(Events(feed, cfg.sport_key),
                 Dispatch(markets, cfg.sport_key, cfg.safe_only))
       THEN \* the traceback ends main: nothing is printed
            /\ all_arbs' = <<>>
            /\ output' = <<>>
            /\ pc' = "error"
       ELSE /\ all_arbs' = run_scanners(Events(feed, cfg.sport_key), markets,
                                        cfg.sport_key, cfg.safe_only)
            /\ output' = Report(all_arbs')
            /\ pc' = "scanned"
    /\ UNCHANGED <<cfg, markets, feed, filtered>>
    /\ UNCHANGED calc_vars

Next ==
    \/ FetchBookmaker
    \/ RunScanners

Spec == Init /\ [][Next]_vars

\* the same main on the odds responses of the other leagues
InitLeagues ==
    /\ \E r \in LeagueRuns : markets = r.markets /\ cfg = r.cfg
    /\ feed = <<>>
    /\ all_arbs = <<>>
    /\ filtered = NotFiltered
    /\ output = <<>>
    /\ pc = "fetch"
    /\ IdleCalc

SpecLeagues == InitLeagues /\ [][Next]_vars

----------------------------------------------------------------------------
(* Filter specification: main sets the four bookmaker flags and the exclude *)
(* list, and _filter_bookmakers is applied to a list of bookmaker blocks.   *)

MaxFilterBooks == 2

\* one key for every combination of sets a rule can distinguish; "" is a
\* block without a "key" entry, "Bet365" a key the feed spells in capitals
FilterKeys ==
    {"bet365", "Bet365", "betfair_ex_uk", "betfair_ex_au", "smarkets", "paddypower",
     "draftkings", "williamhill", "unibet_uk", "betonlineag", ""}

\* --exclude-books values, split at the commas
ExcludeArgs == {<<>>, <<"bet365">>, <<"Pinnacle", "", "WilliamHill">>}

FilterCfgs ==
    {[DefaultCfg EXCEPT !.include_unreliable = u, !.use_all_books = a,
                        !.include_exchanges = x, !.finland_only = f,
                        !.exclude_books = ParseExcludeBooks(e)] :
        u \in BOOLEAN, a \in BOOLEAN, x \in BOOLEAN, f \in BOOLEAN, e \in ExcludeArgs}

InitFilter ==
    /\ cfg \in FilterCfgs
    /\ markets = {}
    /\ \E n \in 0..MaxFilterBooks :
          \E keys \in [1..n -> FilterKeys] :
              feed = [i \in 1..n |-> [key |-> keys[i], markets |-> <<>>]]
    /\ all_arbs = <<>>
    /\ filtered = NotFiltered
    /\ output = <<>>
    /\ pc = "filter"
    /\ IdleCalc

\* _filter_bookmakers(bookmakers)
FilterBookmakers ==
    /\ pc = "filter"
    /\ filtered = NotFiltered
    /\ filtered' = FilterResult(_filter_bookmakers(feed))
    /\ UNCHANGED <<cfg, markets, feed, all_arbs, output, pc>>
    /\ UNCHANGED calc_vars

NextFilter == FilterBookmakers

SpecFilter == InitFilter /\ [][NextFilter]_vars

----------------------------------------------------------------------------
(* Properties of the calculators, under specification SpecCalc.            *)

\* the commission-adjusted odds of leg i of the drawn input
EffOfLeg(i) == adjust_odds_for_commission(in_odds[i], KeyOfLeg(i))

PairInvSum == RAdd(RDiv(R(1), EffOfLeg(1)), RDiv(R(1), EffOfLeg(2)))

BothAboveOne ==
    /\ Len(in_odds) = 2
    /\ AllNumeric(in_odds)
    /\ RLt(R(1), in_odds[1])
    /\ RLt(R(1), in_odds[2])

SomeLegCharged == \E i \in 1..Len(in_odds) : CommissionOf(KeyOfLeg(i)) # R(0)

\* C2: for every pair of odds a, b > 1 whose commission-adjusted inverse sum
\* is below 1, calc_arb_equal_payout returns stakes with
\* stake_a * eff_a = stake_b * eff_b, and the returned total equals
\* stake_a + stake_b, which is 100.
C2_PairEqualPayout ==
    (res_pair # NotCalled /\ BothAboveOne /\ RLt(PairInvSum, R(1))) =>
        /\ res_pair.status = "ok"
        /\ Len(res_pair.stakes) = 2
        /\ RMul(res_pair.stakes[1], EffOfLeg(1)) = RMul(res_pair.stakes[2], EffOfLeg(2))
        /\ res_pair.total = RAdd(res_pair.stakes[1], res_pair.stakes[2])
        /\ res_pair.total = R(100)

C2_Witness ==
    /\ res_pair.status = "ok"
    /\ SomeLegCharged
    /\ in_odds[1] # in_odds[2]

\* C3: calc_arb_equal_payout returns no result exactly when either raw odds
\* is missing or <= 1.0, or the inverse sum of the effective odds is >= 1;
\* in every other case it returns a result.
C3_PairNoResultExactly ==
    res_pair # NotCalled =>
        LET refused == \/ ~AllNumeric(in_odds)
                       \/ RLe(in_odds[1], R(1))
                       \/ RLe(in_odds[2], R(1))
                       \/ RLe(R(1), PairInvSum)
        IN  /\ refused => res_pair = NoResult
            /\ ~refused => res_pair.status = "ok"

\* the boundary: two even-money quotes at fixed-odds books, inverse sum = 1
C3_Witness ==
    /\ res_pair = NoResult
    /\ BothAboveOne
    /\ PairInvSum = R(1)

\* C4: for every two (numeric) odds and every two bookmaker keys,
\* calc_nway_arb on the 2-element list succeeds exactly when
\* calc_arb_equal_payout succeeds on the same pair, and both return the same
\* two stakes and the same total.
C4_NwayAgreesWithPair ==
    (Len(in_odds) = 2 /\ AllNumeric(in_odds)
        /\ res_pair # NotCalled /\ res_nway # NotCalled) =>
        /\ (res_nway.status = "ok") <=> (res_pair.status = "ok")
        /\ res_nway.stakes = res_pair.stakes
        /\ res_nway.total = res_pair.total

C4_Witness ==
    /\ Len(in_odds) = 2
    /\ res_pair.status = "ok"
    /\ res_nway.status = "ok"
    /\ SomeLegCharged

\* C5: whenever calc_nway_arb succeeds on a list of odds, stake_i * eff_i has
\* the same value for every leg i, each stake_i equals 100 / (eff_i * s) with
\* s the sum of the inverse effective odds, and the stakes sum to the returned
\* total of 100.
C5_NwayEqualPayout ==
    res_nway.status = "ok" =>
        LET n == Len(in_odds)
            s == RSum([i \in 1..n |-> RDiv(R(1), EffOfLeg(i))])
        IN  /\ Len(res_nway.stakes) = n
            /\ \A i, j \in 1..n :
                  RMul(res_nway.stakes[i], EffOfLeg(i)) = RMul(res_nway.stakes[j], EffOfLeg(j))
            /\ \A i \in 1..n :
                  res_nway.stakes[i] = RDiv(R(100), RMul(EffOfLeg(i), s))
            /\ RSum(res_nway.stakes) = res_nway.total
            /\ res_nway.total = R(100)

C5_Witness ==
    /\ res_nway.status = "ok"
    /\ Len(in_odds) = 3
    /\ SomeLegCharged
    /\ \E i, j \in 1..Len(in_odds) : in_odds[i] # in_odds[j]

\* C6: calc_nway_arb returns no result when given fewer than 2 odds (an
\* empty list or a single odds value), and when any odds in the list is
\* <= 1.0.
C6_NwayRefusesShortOrInvalid ==
    (res_nway # NotCalled /\ AllNumeric(in_odds)
        /\ (\/ Len(in_odds) < 2
            \/ \E i \in 1..Len(in_odds) : RLe(in_odds[i], R(1)))) =>
        res_nway = NoResult

\* C7: adjust_odds_for_commission returns 1 + (odds - 1) * (1 - c), where c
\* is the rate of the bookmaker key in the commission table and c = 0 (odds
\* returned unchanged, no failure) for every key that has no entry.
TableRate(k) ==
    IF k \in DOMAIN EXCHANGE_COMMISSION THEN EXCHANGE_COMMISSION[k] ELSE R(0)

CommissionFormula(odds, c) == RAdd(R(1), RMul(RSub(odds, R(1)), RSub(R(1), c)))

KeyUniverse == DOMAIN EXCHANGE_COMMISSION \cup CalcKeys \cup {"", "unknown_book"}

C7_CommissionFormula ==
    res_eff.status = "ok" =>
        \A i \in 1..Len(in_odds) :
            /\ res_eff.value[i] = CommissionFormula(in_odds[i], TableRate(KeyOfLeg(i)))
            /\ KeyOfLeg(i) \notin DOMAIN EXCHANGE_COMMISSION => res_eff.value[i] = in_odds[i]
            /\ \A k \in KeyUniverse :
                  adjust_odds_for_commission(in_odds[i], k)
                      = CommissionFormula(in_odds[i], TableRate(k))

C7_Witness ==
    /\ res_eff.status = "ok"
    /\ \E i, j \in 1..Len(in_odds) :
          /\ KeyOfLeg(i) \in DOMAIN EXCHANGE_COMMISSION
          /\ RLt(R(1), in_odds[i])
          /\ KeyOfLeg(j) \notin DOMAIN EXCHANGE_COMMISSION

\* C8: commission is monotonic: for the same raw odds > 1 a bookmaker with a
\* higher commission rate gives strictly lower effective odds, and for the
\* same raw odds pair the profit_pct with a commission-charging leg is
\* strictly lower than with zero commission (or the arbitrage disappears).
C8_CommissionMonotonic ==
    /\ res_eff.status = "ok" =>
          \A i \in 1..Len(in_odds) : \A k \in KeyUniverse :
              RLt(R(1), in_odds[i]) =>
                  /\ RLt(TableRate(KeyOfLeg(i)), TableRate(k)) =>
                        RLt(adjust_odds_for_commission(in_odds[i], k), res_eff.value[i])
                  /\ RLt(TableRate(k), TableRate(KeyOfLeg(i))) =>
                        RLt(res_eff.value[i], adjust_odds_for_commission(in_odds[i], k))
    /\ (res_profit.status = "ok" /\ BothAboveOne /\ SomeLegCharged) =>
          RLt(res_profit.value, _arb_profit_pct(in_odds[1], in_odds[2], "", ""))
    /\ (res_pair.status = "ok" /\ SomeLegCharged) =>
          calc_arb_equal_payout(in_odds[1], in_odds[2], "", "").status = "ok"

\* 2.0 against 2.05 quoted on a 5% exchange: an arbitrage at zero commission
\* that the commission eliminates
C8_Witness ==
    /\ res_profit.status = "ok"
    /\ res_eff.status = "ok"
    /\ res_pair = NoResult
    /\ BothAboveOne
    /\ SomeLegCharged
    /\ calc_arb_equal_payout(in_odds[1], in_odds[2], "", "").status = "ok"

\* the input of the five-outcome scenario has been given to calc_nway_arb
FiveWayCalled == in_odds = FiveWayOdds /\ res_nway # NotCalled

\* C20: for the best odds 2.2, 3.1, 4.5, 6.0 and 10.0 at bookmakers that charge
\* no commission the sum of the inverse odds is 19427/15345 (about 1.266),
\* which is not below 1, and calc_nway_arb returns no result: there are no
\* stakes.
C20_FiveWayNoArbitrage ==
    FiveWayCalled =>
        /\ \A i \in 1..Len(in_odds) : CommissionOf(KeyOfLeg(i)) = R(0)
        /\ InvSum(in_odds) = Frac(19427, 15345)
        /\ RLe(R(1), InvSum(in_odds))
        /\ res_nway = NoResult

C20_Witness == FiveWayCalled /\ keys_given

\* C20 as stated: for these odds calc_nway_arb reports an arbitrage (inverse
\* sum below 1) and returns five stakes whose payouts stake_i * odds_i are
\* all equal.
C20_FiveWayArbitrage ==
    FiveWayCalled =>
        /\ RLt(InvSum(in_odds), R(1))
        /\ res_nway.status = "ok"
        /\ Len(res_nway.stakes) = 5
        /\ \A i, j \in 1..5 :
              RMul(res_nway.stakes[i], in_odds[i]) = RMul(res_nway.stakes[j], in_odds[j])

----------------------------------------------------------------------------
(* Properties of the bookmaker filter, under specification SpecFilter.      *)

\* the key is on the user's exclude list, letter case ignored
OnExcludeList(key) == \E b \in cfg.exclude_books : Lower(b) = Lower(key)

\* one of the seven exclusion rules matches the key
SomeRuleMatches(key) ==
    \/ OnExcludeList(key)
    \/ key \in BLACKLIST_BOOKMAKERS
    \/ key \in NON_BETFAIR_EXCHANGES
    \/ (key \in BETFAIR_EXCHANGES /\ ~cfg.include_exchanges)
    \/ (key \in FINLAND_RESTRICTED /\ cfg.finland_only)
    \/ (key \notin TRUSTED_BOOKMAKERS /\ ~cfg.use_all_books)
    \/ (key \in UNRELIABLE_BOOKMAKERS /\ ~cfg.include_unreliable)

FilterKept == {filtered.blocks[i].key : i \in 1..Len(filtered.blocks)}

\* C12: for every configuration of the flags _filter_bookmakers keeps a block
\* exactly when none of the seven rules matches its key (user exclude list
\* compared case-insensitively, blacklist, non-Betfair exchange, Betfair
\* exchange while exchange inclusion is off, jurisdiction-restricted while
\* that filter is on, outside the trusted set unless all-books, unreliable
\* unless include-unreliable), in the order of the input; no flag lets a key
\* excluded by the exclude list, the blacklist or the non-Betfair rule pass.
C12_FilterKeepsExactlyUnmatched ==
    filtered # NotFiltered =>
        /\ filtered.blocks = SelectSeq(feed, LAMBDA bm : ~SomeRuleMatches(bm.key))
        /\ \A key \in FilterKept :
              /\ ~OnExcludeList(key)
              /\ key \notin BLACKLIST_BOOKMAKERS
              /\ key \notin NON_BETFAIR_EXCHANGES

C12_Witness ==
    /\ filtered # NotFiltered
    /\ cfg.use_all_books /\ cfg.include_unreliable /\ ~cfg.finland_only
    /\ cfg.exclude_books = {"pinnacle", "williamhill"}
    /\ Len(feed) = 2
    /\ feed[1].key = "paddypower"
    /\ FilterKept = {"betonlineag"}

----------------------------------------------------------------------------
(* Properties of the scanner, under specification Spec.                    *)

Opps == {all_arbs[k] : k \in 1..Len(all_arbs)}

\* a source quote whose bookmaker has a table entry
Charged(q) == CommissionOf(q.bk) # R(0)

OppHasChargedQuote(opp) ==
    \E i \in 1..Len(opp.legs) : \E j \in 1..Len(opp.legs[i].quotes) :
        Charged(opp.legs[i].quotes[j])

RECURSIVE EffProduct(_)
EffProduct(quotes) ==
    IF quotes = <<>> THEN R(1)
    ELSE RMul(adjust_odds_for_commission(Head(quotes).odds, Head(quotes).bk),
              EffProduct(Tail(quotes)))

\* what a leg pays per unit staked once every source quote is taken at its
\* commission-adjusted odds
LegEff(leg) == EffProduct(leg.quotes)

OppEffInv(opp) == RSum([i \in 1..Len(opp.legs) |-> RDiv(R(1), LegEff(opp.legs[i]))])

ProfitFromEffective(opp) == RMul(R(100), RSub(RDiv(R(1), OppEffInv(opp)), R(1)))

\* C1: in every opportunity returned by run_scanners, whatever strategy built
\* it, no two legs carry the same bookmaker key.
C1_NoTwoLegsSameBookmaker ==
    \A opp \in Opps :
        \A i, j \in 1..Len(opp.legs) :
            i < j => opp.legs[i].book # opp.legs[j].book

\* C9: whenever an emitted opportunity has a leg quoted by a commission-charging
\* exchange, the existence test (inverse sum below 1), every stake and
\* profit_pct are the values obtained from the commission-adjusted odds of its
\* source quotes.
C9_CommissionBeforeArbMath ==
    \A opp \in Opps :
        OppHasChargedQuote(opp) =>
            /\ RLt(OppEffInv(opp), R(1))
            /\ \A i \in 1..Len(opp.legs) :
                   opp.legs[i].stake =
                       RDiv(R(100), RMul(LegEff(opp.legs[i]), OppEffInv(opp)))
            /\ opp.profit_pct = ProfitFromEffective(opp)

\* C10: every emitted opportunity has profit_pct > 0, and that profit_pct is
\* the profit computed from the effective odds of its legs.
C10_ProfitPositiveFromEffective ==
    \A opp \in Opps :
        /\ RLt(R(0), opp.profit_pct)
        /\ opp.profit_pct = ProfitFromEffective(opp)

\* the calls run_scanners makes for the requested key k
CallsFor(k) ==
    SelectSeq(Dispatch(markets, cfg.sport_key, cfg.safe_only), LAMBDA call : k \in call.keys)

\* C16: whatever keys are requested and whatever the enable flags are, every
\* requested market key causes exactly one grouping strategy to be run for it.
C16_OneStrategyPerKey ==
    pc = "scanned" => \A k \in markets : Len(CallsFor(k)) = 1

Final == {output[k] : k \in 1..Len(output)}

\* C13: with deduplication enabled the final output holds, for every key
\* (event_id, market label, line, arb_type), at most one opportunity, and it
\* has the highest profit_pct among all opportunities the strategies
\* discovered for that key.
C13_DedupeKeepsHighestPerKey ==
    (pc = "scanned" /\ ~cfg.no_dedupe) =>
        /\ \A i, j \in 1..Len(output) :
              i < j => DedupeKey(output[i]) # DedupeKey(output[j])
        /\ \A a \in Final : \A b \in Opps :
              DedupeKey(b) = DedupeKey(a) => RLe(b.profit_pct, a.profit_pct)

\* C14: deduplication is idempotent: applied to its own result it returns the
\* same list, for the list the strategies returned and for the list that
\* passed the filters.
C14_DedupeIdempotent ==
    pc = "scanned" =>
        /\ Dedupe(Dedupe(all_arbs)) = Dedupe(all_arbs)
        /\ Dedupe(Dedupe(Banded(all_arbs))) = Dedupe(Banded(all_arbs))

C14_Witness ==
    /\ pc = "scanned"
    /\ Len(all_arbs) >= Len(Dedupe(all_arbs)) + 2
    /\ Len(Dedupe(all_arbs)) >= 2

\* C15: every opportunity of the final output has
\* min_profit <= profit_pct <= max_profit, and both bounds are inclusive: a
\* discovered opportunity whose profit_pct equals a bound is not removed by
\* the band (its key keeps an opportunity of at least that profit_pct, and
\* without deduplication the opportunity itself).
C15_ProfitBandInclusive ==
    pc = "scanned" =>
        /\ \A a \in Final :
              RLe(cfg.min_profit, a.profit_pct) /\ RLe(a.profit_pct, cfg.max_profit)
        /\ \A a \in Opps :
              (/\ a.profit_pct \in {cfg.min_profit, cfg.max_profit}
               /\ RLe(cfg.min_profit, cfg.max_profit)) =>
                  /\ \E b \in Final :
                        /\ DedupeKey(b) = DedupeKey(a)
                        /\ RLe(a.profit_pct, b.profit_pct)
                  /\ cfg.no_dedupe => ScaleStakes(a) \in Final

C15_Witness ==
    /\ pc = "scanned"
    /\ RLt(R(0), cfg.min_profit)
    /\ \E a \in Final : a.profit_pct = cfg.min_profit /\ a.profit_pct = cfg.max_profit
    /\ \E a \in Opps : RLt(a.profit_pct, cfg.min_profit)

----------------------------------------------------------------------------
(* Properties of main on the other leagues, under specification SpecLeagues. *)

\* the bookmaker keys of the source quotes of an opportunity's legs
QuotedBy(opp) ==
    UNION {{opp.legs[i].quotes[j].bk : j \in 1..Len(opp.legs[i].quotes)} :
              i \in 1..Len(opp.legs)}

\* the keys of the fetched blocks that _filter_bookmakers drops
ExcludedKeys == {feed[i].key : i \in {j \in 1..Len(feed) : ~FilterKeeps(feed[j].key)}}

\* C11: a bookmaker the filter excludes never reaches grouping: no leg of any
\* opportunity run_scanners returns, and none the output holds, is quoted by
\* a bookmaker the filter excludes under the flags in force.
C11_NoExcludedBookmakerInLegs ==
    \A opp \in Opps \cup Final : \A key \in QuotedBy(opp) : FilterKeeps(key)

C11_Witness ==
    /\ pc = "scanned"
    /\ all_arbs # <<>>
    /\ Cardinality(ExcludedKeys) >= 2
    /\ feed[1].key \in ExcludedKeys

\* C17: no grouping strategy raises on malformed input: a missing price, a
\* non-numeric price or line and a null outcome name are skipped silently.
C17_NoStrategyRaises == pc # "error"

\* C18: a quote whose odds are null, zero or at most 1.0 is dropped before
\* calculation: it is no leg of an emitted opportunity and contributes to
\* none.
C18_NoLegFromLowOdds ==
    \A opp \in Opps :
        \A i \in 1..Len(opp.legs) : \A j \in 1..Len(opp.legs[i].quotes) :
            /\ ~IsNone(opp.legs[i].quotes[j].odds)
            /\ RLt(R(1), opp.legs[i].quotes[j].odds)

\* the opportunities main has for the event of the given id
ReportedFor(id) == SelectSeq(all_arbs, LAMBDA a : a.event_id = id)

\* what the scan of the event alone returns; nothing when it raises
ScannedAlone(events, calls) ==
    IF Raises(events, calls) THEN <<>> ELSE RunCalls(events, calls)

\* C19: for any list of events the opportunities reported for one event are
\* exactly those reported when that event is scanned alone: an event with
\* malformed or missing fields neither changes nor suppresses the
\* opportunities of the other events.
C19_EventsIndependent ==
    pc \in {"scanned", "error"} =>
        \A e \in 1..Len(EventIds(cfg.sport_key)) :
            ReportedFor(EventIds(cfg.sport_key)[e]) =
                ScannedAlone(<<Events(feed, cfg.sport_key)[e]>>,
                             Dispatch(markets, cfg.sport_key, cfg.safe_only))

----------------------------------------------------------------------------
(* Properties of the single strategies, under specification Spec.          *)

\* the outcomes of the filtered bookmakers of every fetched event
Kept == UNION {Range(Fl(Events(feed, cfg.sport_key)[e])) :
                  e \in 1..Len(EventIds(cfg.sport_key))}

OppsOf(market) == {opp \in Opps : opp.market = market}

\* the filtered bookmakers that quote the market
BooksQuoting(market) == {f.bk : f \in {g \in Kept : g.mk = market}}

\* the leg is a double-chance quote of its bookmaker under its normalised name
IsDoubleChanceQuote(leg) ==
    \E f \in Kept :
        /\ f.mk = "double_chance"
        /\ f.bk = leg.book
        /\ NoSpaceLower(OrEmpty(f.o.name)) = leg.outcome
        /\ f.o.price = leg.odds

\* C21: a double-chance opportunity has two legs, quotes whose normalised
\* names form one of the three complementary pairs, from different
\* bookmakers; when one single bookmaker quotes the market, nothing is
\* emitted.
C21_DoubleChanceComplementaryPairs ==
    /\ \A opp \in OppsOf("double_chance") :
          /\ Len(opp.legs) = 2
          /\ <<opp.legs[1].outcome, opp.legs[2].outcome>> \in Range(DoubleChancePairs)
          /\ opp.legs[1].book # opp.legs[2].book
          /\ IsDoubleChanceQuote(opp.legs[1])
          /\ IsDoubleChanceQuote(opp.legs[2])
    /\ Cardinality(BooksQuoting("double_chance")) <= 1 => OppsOf("double_chance") = {}

\* an opportunity is emitted while one bookmaker alone quotes the pair
\* home-or-away against draw, at odds that would be an arbitrage
C21_Witness ==
    /\ pc = "scanned"
    /\ OppsOf("double_chance") # {}
    /\ \E f \in Kept :
          /\ NoSpaceLower(OrEmpty(f.o.name)) = "homeoraway"
          /\ RLt(R(2), f.o.price)
          /\ \A g \in Kept : NoSpaceLower(OrEmpty(g.o.name)) \in {"homeoraway", "draw"}
                                => g.bk = f.bk

\* the opportunities scan_h2h emits
H2hOpps == {opp \in Opps : opp.market \in Range(H2H_LIKE) /\ opp.arb_type = "2-way"}

\* the names of a market's outcomes
NamesOf(outs) == {outs[i].name : i \in 1..Len(outs)}

\* the head-to-head markets a leg's quote is read from
MarketsOfLeg(opp, leg) ==
    {f.outs : f \in {g \in Kept : /\ g.mk = opp.market
                                  /\ g.bk = leg.book
                                  /\ g.o.name = leg.outcome
                                  /\ g.o.price = leg.odds}}

\* C22: every leg of a 2-way head-to-head opportunity is read from a market
\* with exactly 2 distinct outcome names, none of them Draw, whether the
\* two-way-only flag is set or not.
C22_H2hNeverFromDrawMarket ==
    \A opp \in H2hOpps :
        \A i \in 1..Len(opp.legs) :
            /\ MarketsOfLeg(opp, opp.legs[i]) # {}
            /\ \A outs \in MarketsOfLeg(opp, opp.legs[i]) :
                  /\ Cardinality(NamesOf(outs)) = 2
                  /\ ~HasDraw(outs)

\* the quotes scan_h2h reads for the market key, in feed order
H2hRead(market_key) ==
    SelectSeq(Fl(Events(feed, cfg.sport_key)[1]), LAMBDA f :
        /\ f.mk = market_key
        /\ IF cfg.two_way_only THEN is_two_way_market(f.outs) ELSE Len(f.outs) = 2
        /\ HasName(f)
        /\ ~IsNone(f.o.price))

\* the names among the quotes read
H2hNames(read) == {read[i].o.name : i \in 1..Len(read)}

\* the quotes of the first side, the one named first, and of the other side
FirstSide(read) == SelectSeq(read, LAMBDA f : f.o.name = read[1].o.name)

OtherSide(read) == SelectSeq(read, LAMBDA f : f.o.name # read[1].o.name)

\* the quotes are of different bookmakers and the pairwise calculator succeeds
Pairable(f1, f2) ==
    /\ f1.bk # f2.bk
    /\ calc_arb_equal_payout(f1.o.price, f2.o.price, f1.bk, f2.bk).status = "ok"

\* positions of the other side's quotes the first-side quote f1 can be paired with
Matches(f1, others) == {j \in 1..Len(others) : Pairable(f1, others[j])}

Earliest(S) == CHOOSE j \in S : \A k \in S : j <= k

\* the opportunities emitted for the first-side quote f1, in order
EmittedFor(f1) ==
    SelectSeq(all_arbs, LAMBDA a :
        /\ a.market = f1.mk
        /\ a.arb_type = "2-way"
        /\ a.legs[1].book = f1.bk
        /\ a.legs[1].outcome = f1.o.name)

\* nothing is emitted for a quote without a match, else one opportunity, with
\* the earliest match
FirstMatchOnly(others, matches, emitted) ==
    IF matches = {} THEN emitted = <<>>
    ELSE /\ Len(emitted) = 1
         /\ emitted[1].legs[2].book = others[Earliest(matches)].bk

GreedySides(first, others) ==
    \A i \in 1..Len(first) :
        FirstMatchOnly(others, Matches(first[i], others), EmittedFor(first[i]))

GreedyRead(read) ==
    Cardinality(H2hNames(read)) = 2 => GreedySides(FirstSide(read), OtherSide(read))

\* C23: for each quote of the first side scan_h2h emits at most one
\* opportunity: none when no quote of the other side can be paired with it,
\* else exactly the pairing with the earliest such quote in feed order.
C23_H2hFirstSuccessOnly ==
    (pc = "scanned" /\ "h2h" \in markets) => GreedyRead(H2hRead("h2h"))

\* the quote has two matches, the earliest of them after a quote of another
\* bookmaker that fails
LateFirstMatch(f1, others, matches) ==
    /\ Cardinality(matches) >= 2
    /\ \E j \in 1..Len(others) : j < Earliest(matches) /\ others[j].bk # f1.bk
    /\ Len(EmittedFor(f1)) = 1

SomeLateFirstMatch(first, others) ==
    \E i \in 1..Len(first) : LateFirstMatch(first[i], others, Matches(first[i], others))

LateMatchRead(read) ==
    /\ Cardinality(H2hNames(read)) = 2
    /\ SomeLateFirstMatch(FirstSide(read), OtherSide(read))

C23_Witness ==
    /\ pc = "scanned"
    /\ "h2h" \in markets
    /\ LateMatchRead(H2hRead("h2h"))

\* the quotes scan_h2h_3way reads, in feed order
ThreeWayRead ==
    SelectSeq(Fl(Events(feed, cfg.sport_key)[1]), LAMBDA f :
        /\ f.mk = "h2h"
        /\ Len(f.outs) = 3
        /\ HasDraw(f.outs)
        /\ StrippedName(f) # ""
        /\ ~IsNone(f.o.price))

\* the outcome names among the quotes read, in the order they are met
ThreeWayNames(read) == KeysInOrder([i \in 1..Len(read) |-> StrippedName(read[i])], {})

QuotesNamed(read, n) == {f \in Range(read) : StrippedName(f) = n}

\* one quote per outcome, from three pairwise distinct bookmakers, for which
\* the N-way calculator succeeds
Triples(read, names) ==
    {t \in QuotesNamed(read, names[1]) \X QuotesNamed(read, names[2])
             \X QuotesNamed(read, names[3]) :
        /\ Cardinality({t[1].bk, t[2].bk, t[3].bk}) = 3
        /\ calc_nway_arb(<<t[1].o.price, t[2].o.price, t[3].o.price>>,
                         <<t[1].bk, t[2].bk, t[3].bk>>).status = "ok"}

LegsAs(t) ==
    [i \in 1..Len(t) |-> [outcome |-> StrippedName(t[i]), book |-> t[i].bk,
                          odds |-> t[i].o.price]]

LegsOf(opp) ==
    [i \in 1..Len(opp.legs) |-> [outcome |-> opp.legs[i].outcome, book |-> opp.legs[i].book,
                                 odds |-> opp.legs[i].odds]]

ThreeWayArbs == SelectSeq(all_arbs, LAMBDA a : a.arb_type = "3-way")

\* the legs of the opportunities arbs are exactly the triples, each once
EachTripleOnce(triples, legs) ==
    /\ \A k \in 1..Len(legs) : legs[k] \in triples
    /\ \A t \in triples : Cardinality({k \in 1..Len(legs) : legs[k] = t}) = 1

TriplesOnce(read, names, arbs) ==
    Len(names) = 3 =>
        /\ \A k \in 1..Len(arbs) : arbs[k].market = "h2h_3way"
        /\ EachTripleOnce({LegsAs(t) : t \in Triples(read, names)},
                          [k \in 1..Len(arbs) |-> LegsOf(arbs[k])])

TriplesOnceRead(read) == TriplesOnce(read, ThreeWayNames(read), ThreeWayArbs)

\* C24: every 3-way opportunity is one of these triples, read from markets
\* of exactly 3 outcomes one of which is the draw, and every such triple is
\* emitted exactly once.
C24_ThreeWayEveryTriple ==
    (pc = "scanned" /\ cfg.enable_3way) => TriplesOnceRead(ThreeWayRead)

ManyTriples(read, names) ==
    /\ Len(names) = 3
    /\ Cardinality(Triples(read, names)) >= 6
    /\ Cardinality({f.bk : f \in Range(read)}) = 4
    /\ \E f \in Range(read) : f.o.price = R(2)

ManyTriplesRead(read) == ManyTriples(read, ThreeWayNames(read))

\* four bookmakers quote the three outcomes: some triples leave one of them
\* out, some succeed and some are refused by the calculator
C24_Witness ==
    /\ pc = "scanned"
    /\ cfg.enable_3way
    /\ ManyTriplesRead(ThreeWayRead)

\* the Over/Under quotes a totals strategy reads for the market key
TotalsRead(market_key) ==
    {f \in Kept : f.mk = market_key /\ IsOverUnder(f)}

\* the value of the "market" field for a quote of the market key
MarketField(f) ==
    IF f.mk = "team_totals" THEN f.mk \o "(" \o TeamOf(f) \o ")" ELSE f.mk

\* an Over and an Under at the same line (and team), from different
\* bookmakers, that the pairwise calculator accepts
SameLinePairs(read) ==
    {p \in {f \in read : IsOver(f)} \X {f \in read : IsUnder(f)} :
        /\ IsOver(p[1])
        /\ IsUnder(p[2])
        /\ Float(p[1].o.point) = Float(p[2].o.point)
        /\ MarketField(p[1]) = MarketField(p[2])
        /\ Pairable(p[1], p[2])}

\* the opportunities whose "market" field is that of the market key
TotalsArbs(read) ==
    SelectSeq(all_arbs, LAMBDA a : \E f \in read : a.market = MarketField(f))

\* the opportunity pairs the two quotes at their line
IsPairing(a, p) ==
    /\ a.market = MarketField(p[1])
    /\ a.arb_type = "2-way"
    /\ a.line = LineNum(Float(p[1].o.point))
    /\ <<a.legs[1].outcome, a.legs[1].book, a.legs[1].odds>> =
           <<"Over", p[1].bk, p[1].o.price>>
    /\ <<a.legs[2].outcome, a.legs[2].book, a.legs[2].odds>> =
           <<"Under", p[2].bk, p[2].o.price>>

TotalsKeys == {"totals", "alternate_totals", "team_totals"}

\* every pair is emitted exactly once and every opportunity is a pair
EachPairOnce(pairs, arbs) ==
    /\ \A p \in pairs : Len(SelectSeq(arbs, LAMBDA a : IsPairing(a, p))) = 1
    /\ \A k \in 1..Len(arbs) : \E p \in pairs : IsPairing(arbs[k], p)

PairsOnceRead(read) == EachPairOnce(SameLinePairs(read), TotalsArbs(read))

\* C25: for each of the three totals strategies, every Over and Under at the
\* same line (and team) from different bookmakers that the calculator
\* accepts is emitted exactly once, and every opportunity of the strategy is
\* such a pair: none pairs two different lines.
C25_TotalsExhaustiveWithinLine ==
    pc = "scanned" =>
        \A market_key \in TotalsKeys \cap markets : PairsOnceRead(TotalsRead(market_key))

\* two pairs share their Over, and an Under at another line (or of another
\* team) would be an arbitrage with it
TemptingOtherLine(read, pairs) ==
    \E p, q \in pairs :
        /\ p[1] = q[1]
        /\ p[2] # q[2]
        /\ \E g \in read :
              /\ IsUnder(g)
              /\ <<Float(g.o.point), MarketField(g)>> #
                     <<Float(p[1].o.point), MarketField(p[1])>>
              /\ Pairable(p[1], g)

TemptingRead(read) == TemptingOtherLine(read, SameLinePairs(read))

\* an Over with two Unders to pair with at its line, next to quotes at
\* another line (or of another team) that would be an arbitrage with it
C25_Witness ==
    /\ pc = "scanned"
    /\ \E market_key \in TotalsKeys \cap markets : TemptingRead(TotalsRead(market_key))

\* the opportunities of the three handicap strategies
SpreadOpps ==
    {opp \in Opps : opp.market \in Range(SPREADS_LIKE) \cup {"asian_handicap"}}

\* the handicap quotes of the filtered bookmakers
HandicapRead == {f \in Kept : f.mk \in Range(SPREADS_LIKE) /\ HasPointAndPrice(f)}

\* the leg is a handicap quote of its bookmaker
IsHandicapQuote(leg) ==
    \E f \in HandicapRead :
        /\ f.bk = leg.book
        /\ f.o.name = leg.outcome
        /\ Float(f.o.point) = leg.point
        /\ f.o.price = leg.odds

\* C26: every opportunity of the spreads, alternate-spreads and Asian-handicap
\* strategies pairs a negative-line quote with a positive-line quote of the
\* same absolute handicap, from different bookmakers and with different
\* outcome names.
C26_SpreadsPairOppositeLines ==
    \A opp \in SpreadOpps :
        /\ Len(opp.legs) = 2
        /\ IsHandicapQuote(opp.legs[1])
        /\ IsHandicapQuote(opp.legs[2])
        /\ RLt(opp.legs[1].point, R(0))
        /\ RLt(R(0), opp.legs[2].point)
        /\ RAbs(opp.legs[1].point) = RAbs(opp.legs[2].point)
        /\ opp.line = LineNum(RAbs(opp.legs[1].point))
        /\ opp.legs[1].book # opp.legs[2].book
        /\ opp.legs[1].outcome # opp.legs[2].outcome

\* opportunities are emitted while two bookmakers quote the same team at -1.5
\* and at +1.5, at prices that would be an arbitrage
C26_Witness ==
    /\ pc = "scanned"
    /\ SpreadOpps # {}
    /\ \E f, g \in HandicapRead :
          /\ f.o.name = g.o.name
          /\ RLt(f.o.point, R(0))
          /\ g.o.point = RNeg(f.o.point)
          /\ Pairable(f, g)

CrossLineOpps == {opp \in Opps : opp.market = "cross_line_totals"}

\* the leg is a quote of the named side in a totals-family market
IsTotalsQuote(leg, side) ==
    /\ leg.outcome = side
    /\ \E f \in Kept :
          /\ f.mk \in Range(TOTALS_LIKE)
          /\ f.o.name = side
          /\ f.bk = leg.book
          /\ Float(f.o.point) = leg.point
          /\ f.o.price = leg.odds

\* C27: every cross-line opportunity pairs an Over at line L1 with an Under
\* at line L2 > L1 of totals-family markets, from different bookmakers, and
\* its flag is "middle" exactly when L2 - L1 exceeds 1, "scalp" otherwise.
C27_CrossLineOverBelowUnder ==
    \A opp \in CrossLineOpps :
        /\ Len(opp.legs) = 2
        /\ IsTotalsQuote(opp.legs[1], "Over")
        /\ IsTotalsQuote(opp.legs[2], "Under")
        /\ RLt(opp.legs[1].point, opp.legs[2].point)
        /\ opp.legs[1].book # opp.legs[2].book
        /\ opp.gap = RSub(opp.legs[2].point, opp.legs[1].point)
        /\ opp.type \in {"middle", "scalp"}
        /\ opp.type = "middle" <=> RLt(R(1), RSub(opp.legs[2].point, opp.legs[1].point))

\* one opportunity across a gap of 2 and one across a gap of exactly 1
C27_Witness ==
    /\ pc = "scanned"
    /\ \E opp \in CrossLineOpps : opp.gap = R(2) /\ opp.type = "middle"
    /\ \E opp \in CrossLineOpps : opp.gap = R(1) /\ opp.type = "scalp"

FourWayOpps == {opp \in Opps : opp.arb_type = "4-way"}

\* the quotes of 2-outcome, draw-free head-to-head markets
TeamQuotes ==
    {f \in Kept : f.mk = "h2h" /\ Len(f.outs) = 2 /\ ~HasDraw(f.outs) /\ HasName(f)
                  /\ ~IsNone(f.o.price)}

\* the Over, or the Under, quotes of the totals markets
SideQuotes(side) ==
    {f \in Kept : f.mk \in {"totals", "alternate_totals"} /\ IsOverUnder(f)
                  /\ f.o.name = side}

\* the opportunity is built from the quotes t1, t2 of the two teams and the
\* Over o and the Under u of one line
BuiltFrom(opp, t1, t2, o, u) ==
    /\ t1.o.name # t2.o.name
    /\ Float(o.o.point) = Float(u.o.point)
    /\ opp.line = LineNum(Float(o.o.point))
    /\ Cardinality({t1.bk, t2.bk, o.bk, u.bk}) = 4
    /\ [i \in 1..4 |-> opp.legs[i].odds] =
           <<RMul(t1.o.price, o.o.price), RMul(t1.o.price, u.o.price),
             RMul(t2.o.price, o.o.price), RMul(t2.o.price, u.o.price)>>
    /\ [i \in 1..4 |-> opp.legs[i].book] =
           <<t1.bk \o "+" \o o.bk, t1.bk \o "+" \o u.bk,
             t2.bk \o "+" \o o.bk, t2.bk \o "+" \o u.bk>>

\* every opportunity has four legs built from some quotes of the two teams
\* and some Over and Under
AllBuilt(opps, teams, overs, unders) ==
    \A opp \in opps :
        /\ Len(opp.legs) = 4
        /\ \E t1 \in teams, o \in overs :
              /\ opp.legs[1].book = t1.bk \o "+" \o o.bk
              /\ \E t2 \in teams, u \in unders : BuiltFrom(opp, t1, t2, o, u)

\* C28: every 4-way opportunity has four compound legs built from the two
\* sides of 2-outcome, draw-free head-to-head markets and the Over and the
\* Under of one totals line, quoted by four pairwise distinct bookmakers;
\* each leg's odds are the product of its two quotes' odds.
C28_FourWayFromFourBookmakers ==
    AllBuilt(FourWayOpps, TeamQuotes, SideQuotes("Over"), SideQuotes("Under"))

\* a 4-way opportunity in a feed where one bookmaker quotes both markets
C28_Witness ==
    /\ pc = "scanned"
    /\ FourWayOpps # {}
    /\ \E t \in TeamQuotes : \E o \in SideQuotes("Over") : t.bk = o.bk

----------------------------------------------------------------------------
(* Properties of the dynamic N-way strategy and of the stake scaling,      *)
(* under specification SpecLeagues.                                        *)

\* the quotes scan_nway_dynamic reads for the market key, in feed order
NwayRead(market_key) ==
    SelectSeq(Fl(Events(feed, cfg.sport_key)[1]), LAMBDA f :
        /\ f.mk = market_key
        /\ StrippedName(f) # ""
        /\ ~IsNone(f.o.price))

\* the distinct outcome identities among them, in the order they are met
Identities(market_key) ==
    KeysInOrder([i \in 1..Len(NwayRead(market_key)) |-> OutcomeId(NwayRead(market_key)[i])],
                {})

MinOutcomes == 5

MaxOutcomes == IF cfg.max_nway < 20 THEN cfg.max_nway ELSE 20

NwayLabels == {ToString(n) \o "-way" : n \in MinOutcomes..20}

\* the opportunities of the dynamic strategy for the market key
NwayArbs(market_key) ==
    SelectSeq(all_arbs, LAMBDA a : a.market = market_key /\ a.arb_type \in NwayLabels)

\* the leg is a quote of the identity, at the highest odds quoted for it
IsBestOf(leg, id, market_key) ==
    \E f \in Range(NwayRead(market_key)) :
        /\ OutcomeId(f) = id
        /\ leg.outcome = StrippedName(f)
        /\ leg.book = f.bk
        /\ leg.odds = f.o.price
        /\ \A g \in Range(NwayRead(market_key)) :
              OutcomeId(g) = id => RLe(g.o.price, f.o.price)

Payout(leg) == RMul(leg.stake, adjust_odds_for_commission(leg.odds, leg.book))

StakeSum(opp) == RSum([i \in 1..Len(opp.legs) |-> opp.legs[i].stake])

\* C30: after the stake scaling of main, whatever --max-stake is and whatever
\* the arb_type, the leg stakes of every output opportunity sum to its
\* total_stake and every leg pays the same.
C30_ScaledStakesSumToTotal ==
    \A opp \in Final :
        /\ StakeSum(opp) = opp.total_stake
        /\ \A i, j \in 1..Len(opp.legs) : Payout(opp.legs[i]) = Payout(opp.legs[j])

====
